---- MODULE Spec2Model ----
(***************************************************************************)
(* Batch import of sales and cancellations (moncar-api).                   *)
(*                                                                         *)
(*   POST /ventas/import-batch          src/src/routes/ventas.ts           *)
(*   POST /cancelaciones/import-batch   src/src/routes/cancelaciones.ts    *)
(*   withTransaction                    src/src/db.ts                      *)
(*   VentaSchema, CancelacionSchema     src/src/schemas/*.ts               *)
(*                                                                         *)
(* A JavaScript value that may be null/undefined is an option: None is     *)
(* null or undefined (the code never tells them apart: it uses ?? and      *)
(* != null), Some(v) is the value v.                                       *)
(***************************************************************************)
EXTENDS Integers, Sequences, FiniteSets, TLC

None == <<>>

Some(v) == <<v>>

Val(o) == o[1]

\* a ?? b
Nn(a, b) == IF a # None THEN a ELSE b

\* Number(a ?? 0)
Num0(a) == IF a # None THEN Val(a) ELSE 0

\* Math.max
Max(a, b) == IF a >= b THEN a ELSE b

\* Array.prototype.map
MapSeq(F(_), s) == [k \in 1..Len(s) |-> F(s[k])]

(***************************************************************************)
(* Bounds of the model.                                                    *)
(***************************************************************************)
\* items (sales or cancellations) submitted in validated batches, per behaviour
MaxItems == 2

\* the same, in the specification with fairness
MaxFairItems == 2

\* the same, in the specification with two callers
MaxRaceItems == 2

\* the same, in the specification that starts from a cancelled sale
MaxSoftItems == 2

\* the same, in the specification with two callers and two sale ids
MaxCursorItems == 2

(***************************************************************************)
(* Configuration and database schema.                                      *)
(***************************************************************************)
FORCED_SUCURSAL_ID == "moncar"

\* values of process.env.SOURCE_ID: unset, or a source identifier
SourceIds == {"", "POS-01"}

\* rows of productos: the target of the foreign key of lineas_venta
Productos == {"A", "B"}

\* CREATE TYPE tipo_metodo_pago AS ENUM
tipo_metodo_pago == {"efectivo", "debito", "credito", "transferencia", "cheque", "otro"}

(***************************************************************************)
(* Schemas (zod).                                                          *)
(***************************************************************************)
\* String.prototype.trim on the strings of the model
Trim(s) ==
  CASE s = " " -> ""
    [] s = " F7 " -> "F7"
    [] OTHER -> s

\* NullishTrimmed of schemas/ventas.ts: null, undefined, "" and blanks become null
NullishTrimmedV(o) ==
  IF o = None THEN None
  ELSE IF Trim(Val(o)) = "" THEN None ELSE Some(Trim(Val(o)))

\* NullishTrimmed of schemas/cancelaciones.ts: trims, keeps "" as it is
NullishTrimmedC(o) == IF o = None THEN None ELSE Some(Trim(Val(o)))

\* PagoSchema.safeParse(...).success
PagoValid(p) ==
  /\ p.idx # None /\ Val(p.idx) >= 1
  /\ p.metodo # None /\ Trim(Val(p.metodo)) # ""
  /\ p.monto # None

\* PagoSchema: parsed value
PagoParse(p) == [idx |-> Val(p.idx), metodo |-> Trim(Val(p.metodo)), monto |-> Val(p.monto)]

\* LineaVentaSchema.safeParse(...).success
LineaValid(l) ==
  /\ l.articulo # None /\ Trim(Val(l.articulo)) # ""
  /\ l.cantidad # None
  /\ l.precio # None

\* LineaVentaSchema (passthrough): declared keys transformed, the others kept
LineaParse(l) ==
  [l EXCEPT !.articulo = Some(Trim(Val(l.articulo))),
            !.observ = NullishTrimmedV(l.observ),
            !.usuario = NullishTrimmedV(l.usuario),
            !.usuhora = NullishTrimmedV(l.usuhora),
            !.almacen = NullishTrimmedV(l.almacen),
            !.estado = NullishTrimmedV(l.estado)]

\* VentaSchema.safeParse(...).success
VentaValid(v) ==
  /\ v.id_venta # None
  /\ v.fecha_emision # None /\ Val(v.fecha_emision) # ""
  /\ v.subtotal # None
  /\ v.impuestos # None
  /\ v.total # None
  /\ v.pagos # None /\ \A k \in 1..Len(Val(v.pagos)) : PagoValid(Val(v.pagos)[k])
  /\ v.lineas # None /\ \A k \in 1..Len(Val(v.lineas)) : LineaValid(Val(v.lineas)[k])

\* VentaSchema (z.object strips the keys it does not declare)
VentaParse(v) ==
  [id_venta |-> Val(v.id_venta),
   fecha_emision |-> Val(v.fecha_emision),
   subtotal |-> Val(v.subtotal),
   impuestos |-> Val(v.impuestos),
   total |-> Val(v.total),
   sucursal |-> NullishTrimmedV(v.sucursal),
   caja |-> NullishTrimmedV(v.caja),
   serie |-> NullishTrimmedV(v.serie),
   folio |-> NullishTrimmedV(v.folio),
   cliente_origen |-> NullishTrimmedV(v.cliente_origen),
   datos_origen |-> NullishTrimmedV(v.datos_origen),
   estado_origen |-> NullishTrimmedV(v.estado_origen),
   usu_fecha |-> v.usu_fecha,
   usu_hora |-> NullishTrimmedV(v.usu_hora),
   no_referencia |-> NullishTrimmedV(v.no_referencia),
   origen |-> NullishTrimmedV(v.origen),
   pagos |-> MapSeq(PagoParse, Val(v.pagos)),
   lineas |-> MapSeq(LineaParse, Val(v.lineas)),
   \* undeclared keys: stripped by z.object
   impuesto |-> None, caja_id |-> None, serie_documento |-> None,
   serieDocumento |-> None, folio_numero |-> None, folioNumero |-> None,
   NO_REFEREN |-> None, estado |-> None, cliente |-> None, datos |-> None]

\* BatchVentasSchema.safeParse(req.body).success
BatchVentasValid(body) == \A k \in 1..Len(body) : VentaValid(body[k])

\* BatchVentasSchema.safeParse(req.body).data
BatchVentasParse(body) == MapSeq(VentaParse, body)

\* the strings of the model that z.string().datetime() accepts
IsoDates == {"2025-01-01T10:00:00Z", "2025-02-02T10:00:00Z"}

\* NullishIsoDate.safeParse(...).success
NullishIsoDateValid(o) == o # None => Val(o) \in IsoDates

\* CancelacionSchema.safeParse(...).success
CancelacionValid(c) ==
  /\ c.id_cancelacion_origen # None /\ Val(c.id_cancelacion_origen) >= 0
  /\ c.venta_id # None => Val(c.venta_id) >= 0
  /\ NullishIsoDateValid(c.fecha_emision)
  /\ NullishIsoDateValid(c.fecha_cancelacion)

\* CancelacionSchema: parsed value
CancelacionParse(c) ==
  [id_cancelacion_origen |-> Val(c.id_cancelacion_origen),
   venta_id |-> c.venta_id,
   fecha_emision |-> c.fecha_emision,
   fecha_cancelacion |-> c.fecha_cancelacion,
   cliente_origen |-> NullishTrimmedC(c.cliente_origen),
   cliente_nombre |-> NullishTrimmedC(c.cliente_nombre),
   importe |-> c.importe,
   motivo_cancelacion |-> NullishTrimmedC(c.motivo_cancelacion),
   folio_sustitucion |-> NullishTrimmedC(c.folio_sustitucion),
   uuid_cfdi |-> NullishTrimmedC(c.uuid_cfdi)]

\* BatchCancelacionesSchema.safeParse(req.body).success
BatchCancelacionesValid(body) == \A k \in 1..Len(body) : CancelacionValid(body[k])

\* BatchCancelacionesSchema.safeParse(req.body).data
BatchCancelacionesParse(body) == MapSeq(CancelacionParse, body)

(***************************************************************************)
(* Row mapper: the parameters of the INSERT statements.                    *)
(***************************************************************************)
\* faulty variant: the branch of the payload is stored when it names one
HeaderParamsSucursal(venta) ==
  LET subtotal == venta.subtotal
      impuesto == Num0(Nn(Some(venta.impuestos), venta.impuesto))
  IN [venta_id |-> venta.id_venta,
      fecha_emision |-> venta.fecha_emision,
      sucursal_id |-> IF venta.sucursal # None THEN Val(venta.sucursal)
                      ELSE FORCED_SUCURSAL_ID,
      caja_id |-> Nn(venta.caja, venta.caja_id),
      serie_documento |-> Nn(venta.serie, Nn(venta.serie_documento, venta.serieDocumento)),
      folio_numero |-> Nn(venta.folio, Nn(venta.folio_numero, Nn(venta.folioNumero,
                         Nn(venta.no_referencia, venta.NO_REFEREN)))),
      no_referencia |-> Nn(venta.no_referencia, Nn(venta.NO_REFEREN,
                          Nn(venta.folio, venta.folio_numero))),
      cliente_origen |-> Nn(venta.cliente_origen, venta.cliente),
      datos_origen |-> Nn(venta.datos_origen, venta.datos),
      estado_origen |-> Nn(venta.estado_origen, venta.estado),
      usu_fecha |-> venta.usu_fecha,
      usu_hora |-> venta.usu_hora,
      subtotal |-> subtotal,
      impuesto |-> impuesto,
      total |-> subtotal + impuesto]

\* faulty variant: the total of the payload is stored
HeaderParamsTotal(venta) ==
  [HeaderParamsSucursal(venta) EXCEPT !.sucursal_id = FORCED_SUCURSAL_ID,
                                      !.total = venta.total]

\* ventas.ts: parameters $1..$15 of INSERT INTO ventas
HeaderParams(venta) ==
  LET subtotal == venta.subtotal
      impuesto == Num0(Nn(Some(venta.impuestos), venta.impuesto))
  IN [venta_id |-> venta.id_venta,
      fecha_emision |-> venta.fecha_emision,
      sucursal_id |-> FORCED_SUCURSAL_ID,
      caja_id |-> Nn(venta.caja, venta.caja_id),
      serie_documento |-> Nn(venta.serie, Nn(venta.serie_documento, venta.serieDocumento)),
      folio_numero |-> Nn(venta.folio, Nn(venta.folio_numero, Nn(venta.folioNumero,
                         Nn(venta.no_referencia, venta.NO_REFEREN)))),
      no_referencia |-> Nn(venta.no_referencia, Nn(venta.NO_REFEREN,
                          Nn(venta.folio, venta.folio_numero))),
      cliente_origen |-> Nn(venta.cliente_origen, venta.cliente),
      datos_origen |-> Nn(venta.datos_origen, venta.datos),
      estado_origen |-> Nn(venta.estado_origen, venta.estado),
      usu_fecha |-> venta.usu_fecha,
      usu_hora |-> venta.usu_hora,
      subtotal |-> subtotal,
      impuesto |-> impuesto,
      total |-> subtotal + impuesto]

\* the columns of ventas that INSERT INTO ventas ... ON CONFLICT DO UPDATE SET writes,
\* actualizado_en apart
HeaderCols ==
  {"venta_id", "fecha_emision", "sucursal_id", "caja_id", "serie_documento",
   "folio_numero", "no_referencia", "cliente_origen", "datos_origen", "estado_origen",
   "usu_fecha", "usu_hora", "subtotal", "impuesto", "total"}

\* the columns of ventas that only UPDATE ventas of cancelaciones.ts writes
CancelCols ==
  {"cancelada", "fecha_cancelacion", "motivo_cancelacion", "folio_sustitucion", "uuid_cfdi"}

\* Number.isFinite: the numbers of the model are the finite ones
IsFinite(x) == x \in Int

\* faulty variant: the line number of the payload is stored when the line has one
LineaParamsRenglon(venta_id, renglon, linea) ==
  LET cantidad == Num0(linea.cantidad)
      precioUnitario == Num0(Nn(linea.precio, linea.precio_unitario))
      descuento == Num0(linea.descuento)
  IN [venta_id |-> venta_id,
      renglon |-> Num0(Nn(linea.renglon, Some(renglon))),
      articulo |-> Val(linea.articulo),
      cantidad |-> cantidad,
      precio_unitario |-> precioUnitario,
      descuento |-> descuento,
      impuesto_linea |-> Num0(Nn(linea.impuesto, linea.impuesto_linea)),
      importe_linea |-> IF linea.importe # None THEN Val(linea.importe)
                        ELSE IF IsFinite(cantidad) /\ IsFinite(precioUnitario)
                        THEN cantidad * precioUnitario - descuento
                        ELSE 0,
      almacen_id |-> Nn(linea.almacen_id, linea.almacen),
      id_salida_origen |-> Nn(linea.id_salida, linea.id_salida_origen),
      estado_linea |-> Nn(linea.estado, linea.estado_linea),
      observ_origen |-> Nn(linea.observ, linea.observ_origen),
      usuario_origen |-> Nn(linea.usuario, linea.usuario_origen),
      usu_hora |-> Nn(linea.usuhora, linea.usu_hora),
      usu_fecha |-> linea.usu_fecha]

\* faulty variant: the amount is always computed, an amount in the payload is ignored
LineaParamsImporte(venta_id, renglon, linea) ==
  [LineaParamsRenglon(venta_id, renglon, linea) EXCEPT
     !.renglon = renglon,
     !.importe_linea = Num0(linea.cantidad) * Num0(Nn(linea.precio, linea.precio_unitario))
                         - Num0(linea.descuento)]

\* ventas.ts: parameters $1..$15 of INSERT INTO lineas_venta, renglon = idx + 1
LineaParams(venta_id, renglon, linea) ==
  LET cantidad == Num0(linea.cantidad)
      precioUnitario == Num0(Nn(linea.precio, linea.precio_unitario))
      descuento == Num0(linea.descuento)
  IN [venta_id |-> venta_id,
      renglon |-> renglon,
      articulo |-> Val(linea.articulo),
      cantidad |-> cantidad,
      precio_unitario |-> precioUnitario,
      descuento |-> descuento,
      impuesto_linea |-> Num0(Nn(linea.impuesto, linea.impuesto_linea)),
      importe_linea |-> IF linea.importe # None THEN Val(linea.importe)
                        ELSE IF IsFinite(cantidad) /\ IsFinite(precioUnitario)
                        THEN cantidad * precioUnitario - descuento
                        ELSE 0,
      almacen_id |-> Nn(linea.almacen_id, linea.almacen),
      id_salida_origen |-> Nn(linea.id_salida, linea.id_salida_origen),
      estado_linea |-> Nn(linea.estado, linea.estado_linea),
      observ_origen |-> Nn(linea.observ, linea.observ_origen),
      usuario_origen |-> Nn(linea.usuario, linea.usuario_origen),
      usu_hora |-> Nn(linea.usuhora, linea.usu_hora),
      usu_fecha |-> linea.usu_fecha]

\* ventas.ts: parameters $1..$4 of INSERT INTO pagos_venta
PagoParams(venta_id, pago) ==
  [venta_id |-> venta_id, idx |-> pago.idx, metodo |-> pago.metodo, monto |-> pago.monto]

\* the line rows a sale payload stands for
LineasOf(venta) ==
  {LineaParams(venta.id_venta, k, venta.lineas[k]) : k \in 1..Len(venta.lineas)}

\* the payment rows a sale payload stands for
PagosOf(venta) == {PagoParams(venta.id_venta, venta.pagos[k]) : k \in 1..Len(venta.pagos)}

(***************************************************************************)
(* SQL statements, as functions of the rows they read.                     *)
(***************************************************************************)
\* COALESCE(a, b)
Coalesce(a, b) == IF a # None THEN a ELSE b

\* restriction of a row to a set of columns
Cols(row, cs) == [c \in cs |-> row[c]]

\* faulty variant: on conflict the total is added to the stored total (total = ventas.total + EXCLUDED.total)
UpsertVentaRowSum(old, h, now) ==
  IF old = None
  THEN [c \in HeaderCols \cup CancelCols \cup {"actualizado_en"} |->
          IF c \in HeaderCols THEN h[c]
          ELSE IF c = "actualizado_en" THEN now
          ELSE IF c = "cancelada" THEN FALSE
          ELSE None]
  ELSE [c \in DOMAIN Val(old) |->
          IF c = "total" THEN Val(old)[c] + h[c]
          ELSE IF c \in HeaderCols THEN h[c]
          ELSE IF c = "actualizado_en" THEN now
          ELSE Val(old)[c]]

\* faulty variant: on conflict a null parameter keeps the stored value of a
\* nullable column (col = COALESCE(EXCLUDED.col, ventas.col))
UpsertVentaRowCoalesce(old, h, now) ==
  IF old = None
  THEN [c \in HeaderCols \cup CancelCols \cup {"actualizado_en"} |->
          IF c \in HeaderCols THEN h[c]
          ELSE IF c = "actualizado_en" THEN now
          ELSE IF c = "cancelada" THEN FALSE
          ELSE None]
  ELSE [c \in DOMAIN Val(old) |->
          IF c \in {"caja_id", "serie_documento", "folio_numero", "no_referencia",
                    "cliente_origen", "datos_origen", "estado_origen", "usu_fecha",
                    "usu_hora"}
          THEN Coalesce(h[c], Val(old)[c])
          ELSE IF c \in HeaderCols THEN h[c]
          ELSE IF c = "actualizado_en" THEN now
          ELSE Val(old)[c]]

\* faulty variant: on conflict the row is replaced as a whole, its cancellation
\* columns back to their defaults (DELETE and INSERT instead of DO UPDATE)
UpsertVentaRowReplace(old, h, now) ==
  [c \in HeaderCols \cup CancelCols \cup {"actualizado_en"} |->
     IF c \in HeaderCols THEN h[c]
     ELSE IF c = "actualizado_en" THEN now
     ELSE IF c = "cancelada" THEN FALSE
     ELSE None]

\* INSERT INTO ventas (...) VALUES (...) ON CONFLICT (venta_id) DO UPDATE SET ...
\* old: the stored row (an option), h: the parameters, now: now()
UpsertVentaRow(old, h, now) ==
  IF old = None
  THEN [c \in HeaderCols \cup CancelCols \cup {"actualizado_en"} |->
          IF c \in HeaderCols THEN h[c]
          ELSE IF c = "actualizado_en" THEN now
          ELSE IF c = "cancelada" THEN FALSE
          ELSE None]
  ELSE [c \in DOMAIN Val(old) |->
          IF c \in HeaderCols THEN h[c]
          ELSE IF c = "actualizado_en" THEN now
          ELSE Val(old)[c]]

\* faulty variant: the DELETE of the old lines is missing
DeleteLineasVentaNone(rows, venta_id) == rows

\* DELETE FROM lineas_venta WHERE venta_id = $1
DeleteLineasVenta(rows, venta_id) == {r \in rows : r.venta_id # venta_id}

\* faulty variant: the DELETE of the old payments is missing
DeletePagosVentaNone(rows, venta_id) == rows

\* DELETE FROM pagos_venta WHERE venta_id = $1
DeletePagosVenta(rows, venta_id) == {r \in rows : r.venta_id # venta_id}

\* INSERT INTO lineas_venta: the error it raises on the rows of the sale, or None
InsertLineaError(rows, row) ==
  IF \E r \in rows : r.venta_id = row.venta_id /\ r.renglon = row.renglon
  THEN Some("duplicate key value violates unique constraint lineas_venta_pkey")
  ELSE IF row.articulo \notin Productos
  THEN Some("insert or update on table lineas_venta violates foreign key constraint")
  ELSE None

\* INSERT INTO pagos_venta: the error it raises on the rows of the sale, or None
InsertPagoError(rows, row) ==
  IF \E r \in rows : r.venta_id = row.venta_id /\ r.idx = row.idx
  THEN Some("duplicate key value violates unique constraint pagos_venta_pkey")
  ELSE IF row.metodo \notin tipo_metodo_pago
  THEN Some("invalid input value for enum tipo_metodo_pago")
  ELSE None

\* faulty variant: on conflict every column takes the incoming value (no COALESCE)
UpsertCancelacionRowOverwrite(old, c) ==
  [id_cancelacion_origen |-> c.id_cancelacion_origen,
   venta_id |-> c.venta_id,
   fecha_emision |-> c.fecha_emision,
   fecha_cancelacion |-> c.fecha_cancelacion,
   motivo_cancelacion |-> c.motivo_cancelacion,
   folio_sustitucion |-> c.folio_sustitucion,
   uuid_cfdi |-> c.uuid_cfdi]

\* INSERT INTO cancelaciones (...) ON CONFLICT (id_cancelacion_origen) DO UPDATE SET ...
UpsertCancelacionRow(old, c) ==
  IF old = None
  THEN [id_cancelacion_origen |-> c.id_cancelacion_origen,
        venta_id |-> c.venta_id,
        fecha_emision |-> c.fecha_emision,
        fecha_cancelacion |-> c.fecha_cancelacion,
        motivo_cancelacion |-> c.motivo_cancelacion,
        folio_sustitucion |-> c.folio_sustitucion,
        uuid_cfdi |-> c.uuid_cfdi]
  ELSE [id_cancelacion_origen |-> c.id_cancelacion_origen,
        venta_id |-> Coalesce(c.venta_id, Val(old).venta_id),
        fecha_emision |-> Coalesce(c.fecha_emision, Val(old).fecha_emision),
        fecha_cancelacion |-> Coalesce(c.fecha_cancelacion, Val(old).fecha_cancelacion),
        motivo_cancelacion |-> Coalesce(c.motivo_cancelacion, Val(old).motivo_cancelacion),
        folio_sustitucion |-> Coalesce(c.folio_sustitucion, Val(old).folio_sustitucion),
        uuid_cfdi |-> Coalesce(c.uuid_cfdi, Val(old).uuid_cfdi)]

\* faulty variant: a sale that is not stored is created as a cancelled stub (an upsert
\* instead of an UPDATE)
UpdateVentaCanceladaUpsert(old, c, now) ==
  IF old = None
  THEN Some([x \in HeaderCols \cup CancelCols \cup {"actualizado_en"} |->
               IF x = "venta_id" THEN Val(c.venta_id)
               ELSE IF x = "sucursal_id" THEN FORCED_SUCURSAL_ID
               ELSE IF x = "cancelada" THEN TRUE
               ELSE IF x = "actualizado_en" THEN now
               ELSE IF x \in {"subtotal", "impuesto", "total"} THEN 0
               ELSE IF x \in CancelCols THEN c[x]
               ELSE None])
  ELSE IF Val(old).sucursal_id # FORCED_SUCURSAL_ID
  THEN old
  ELSE Some([Val(old) EXCEPT
               !.cancelada = TRUE,
               !.fecha_cancelacion = Coalesce(c.fecha_cancelacion, @),
               !.motivo_cancelacion = Coalesce(c.motivo_cancelacion, @),
               !.folio_sustitucion = Coalesce(c.folio_sustitucion, @),
               !.uuid_cfdi = Coalesce(c.uuid_cfdi, @),
               !.actualizado_en = now])

\* UPDATE ventas SET cancelada = true, ... WHERE venta_id = $1 AND sucursal_id = $6
\* old: the stored row of venta_id (an option); the result is the row afterwards
UpdateVentaCancelada(old, c, now) ==
  IF old = None \/ Val(old).sucursal_id # FORCED_SUCURSAL_ID
  THEN old
  ELSE Some([Val(old) EXCEPT
               !.cancelada = TRUE,
               !.fecha_cancelacion = Coalesce(c.fecha_cancelacion, @),
               !.motivo_cancelacion = Coalesce(c.motivo_cancelacion, @),
               !.folio_sustitucion = Coalesce(c.folio_sustitucion, @),
               !.uuid_cfdi = Coalesce(c.uuid_cfdi, @),
               !.actualizado_en = now])

\* faulty variant: the upsert overwrites the cursor (ultimo_id_venta = EXCLUDED.ultimo_id_venta)
UpsertCursorOverwrite(old, candidate) == candidate

\* faulty variant: a stored cursor is left as it is (ON CONFLICT DO NOTHING)
UpsertCursorKeep(old, candidate) == IF old = None THEN candidate ELSE Val(old)

\* INSERT INTO estado_sincronizacion ... ON CONFLICT (id_fuente) DO UPDATE SET
\*   ultimo_id_venta = GREATEST(estado_sincronizacion.ultimo_id_venta, EXCLUDED.ultimo_id_venta)
UpsertCursor(old, candidate) ==
  IF old = None THEN candidate ELSE Max(Val(old), candidate)

(***************************************************************************)
(* Request bodies submitted to the two endpoints.                          *)
(***************************************************************************)
RawPago(idx, metodo, monto) == [idx |-> Some(idx), metodo |-> Some(metodo), monto |-> Some(monto)]

RawLinea(articulo) ==
  [articulo |-> Some(articulo), cantidad |-> Some(2), precio |-> Some(5),
   impuesto |-> None, observ |-> None, id_salida |-> None, usuario |-> None,
   usuhora |-> None, almacen |-> None, estado |-> None, usu_fecha |-> None,
   \* keys the schema does not declare (kept by passthrough)
   precio_unitario |-> None, descuento |-> None, impuesto_linea |-> None,
   importe |-> None, almacen_id |-> None, observ_origen |-> None,
   usuario_origen |-> None, usu_hora |-> None, id_salida_origen |-> None,
   estado_linea |-> None, renglon |-> None]

RawVenta(id, subtotal, impuestos, total, lineas, pagos) ==
  [id_venta |-> id, fecha_emision |-> Some("2025-01-01"),
   subtotal |-> Some(subtotal), impuestos |-> Some(impuestos), total |-> Some(total),
   sucursal |-> None, caja |-> None, serie |-> None, folio |-> None,
   cliente_origen |-> None, datos_origen |-> None, estado_origen |-> None,
   usu_fecha |-> None, usu_hora |-> None, no_referencia |-> None, origen |-> None,
   pagos |-> Some(pagos), lineas |-> Some(lineas),
   \* keys the schema does not declare
   impuesto |-> None, caja_id |-> None, serie_documento |-> None,
   serieDocumento |-> None, folio_numero |-> None, folioNumero |-> None,
   NO_REFEREN |-> None, estado |-> None, cliente |-> None, datos |-> None]

\* sale 1, three lines, one payment, a total that is not subtotal + impuestos;
\* the second line carries a discount, the third one an amount, a discount and
\* a line number of its own
VentaA ==
  [RawVenta(Some(1), 100, 16, 999,
            <<RawLinea("A"), [RawLinea("B") EXCEPT !.descuento = Some(4)],
              [RawLinea("A") EXCEPT !.importe = Some(7), !.descuento = Some(1),
                                    !.renglon = Some(9)]>>,
            <<RawPago(1, "efectivo", 116)>>)
   EXCEPT !.caja = Some("C1"), !.folio = Some(" F7 "), !.sucursal = Some("norte")]

\* sale 1 again: one line, two payments, no caja, the folio under a legacy key;
\* the line has its note and its tax under legacy keys
VentaB ==
  [RawVenta(Some(1), 50, 8, 58,
            <<[RawLinea("B") EXCEPT !.observ_origen = Some("nota"), !.impuesto_linea = Some(3)]>>,
            <<RawPago(1, "efectivo", 50), RawPago(2, "credito", 8)>>)
   EXCEPT !.folio_numero = Some("L9")]

\* sale 1 again: the second line names a product that does not exist
VentaX ==
  [RawVenta(Some(1), 20, 3, 23, <<RawLinea("B"), RawLinea("X")>>,
            <<RawPago(1, "efectivo", 23)>>)
   EXCEPT !.caja = Some("C2")]

\* sale 1 again: no line, one payment, whose index is 2
VentaC == RawVenta(Some(1), 10, 1, 11, <<>>, <<RawPago(2, "debito", 11)>>)

\* sale 2: a payment method outside the enum
VentaP == RawVenta(Some(2), 30, 4, 34, <<RawLinea("A")>>, <<RawPago(1, "bitcoin", 34)>>)

\* sale 0: an id that is not positive
VentaZ == RawVenta(Some(0), 5, 0, 5, <<RawLinea("A")>>, <<>>)

\* no id_venta: rejected by the schema
VentaBad == RawVenta(None, 5, 0, 5, <<RawLinea("A")>>, <<RawPago(1, "efectivo", 5)>>)

\* no lineas key: rejected by the schema
VentaNoLineas ==
  [RawVenta(Some(1), 5, 0, 5, <<>>, <<RawPago(1, "efectivo", 5)>>) EXCEPT !.lineas = None]

\* no pagos key: rejected by the schema
VentaNoPagos ==
  [RawVenta(Some(1), 5, 0, 5, <<RawLinea("A")>>, <<>>) EXCEPT !.pagos = None]

RawVentas ==
  {VentaA, VentaB, VentaX, VentaC, VentaP, VentaZ, VentaBad, VentaNoLineas, VentaNoPagos}

RawCancelacion(id, venta_id, fecha, motivo, folio, uuid) ==
  [id_cancelacion_origen |-> id, venta_id |-> venta_id, fecha_emision |-> None,
   fecha_cancelacion |-> fecha, cliente_origen |-> None, cliente_nombre |-> None,
   importe |-> None, motivo_cancelacion |-> motivo, folio_sustitucion |-> folio,
   uuid_cfdi |-> uuid]

\* cancellation 1 of sale 1, with a reason
CancelA == RawCancelacion(Some(1), Some(1), Some("2025-01-01T10:00:00Z"), Some("A"), None, None)

\* cancellation 1 again: no sale, no reason, a replacement folio
CancelB == RawCancelacion(Some(1), None, None, None, Some("F1"), None)

\* cancellation 2 of sale 2
CancelC == RawCancelacion(Some(2), Some(2), Some("2025-02-02T10:00:00Z"), Some(" "), None, Some("U1"))

\* no id_cancelacion_origen: rejected by the schema
CancelBad == RawCancelacion(None, Some(1), None, None, None, None)

RawCancelaciones == {CancelA, CancelB, CancelC, CancelBad}

\* the arrays of at most n elements of S
Arrays(S, n) == UNION {[1..m -> S] : m \in 0..n}

(***************************************************************************)
(* State.                                                                  *)
(***************************************************************************)
VARIABLES
  sourceId,               \* process.env.SOURCE_ID
  ventas,                 \* table ventas: venta_id -> row
  lineas_venta,           \* table lineas_venta: set of rows
  pagos_venta,            \* table pagos_venta: set of rows
  cancelaciones,          \* table cancelaciones: id_cancelacion_origen -> row
  import_log,             \* table import_log: set of rows
  estado_sincronizacion,  \* table estado_sincronizacion: id_fuente -> ultimo_id_venta
  call,                   \* the locals of the running request handler, per caller
  tx,                     \* the open transaction of each caller's client, or None
  held,                   \* pooled connections checked out and not released, per caller
  clock,                  \* now(): advances at every BEGIN
  uuids,                  \* randomUUID(): batch ids handed out
  used,                   \* items submitted so far (bounded by MaxItems)
  lastOk,                 \* history: venta_id -> the payload of its last committed import
  supplied,               \* history: id_cancelacion_origen -> per column, the last non-null value committed
  orphaned                \* history: sale ids cancelled by a committed cancellation before they were stored

vars ==
  <<sourceId, ventas, lineas_venta, pagos_venta, cancelaciones, import_log,
    estado_sincronizacion, call, tx, held, clock, uuids, used, lastOk, supplied,
    orphaned>>

tables == <<ventas, lineas_venta, pagos_venta, cancelaciones>>

Procs == {1}

\* the committed tables, as one value
Snapshot ==
  [ventas |-> ventas, lineas_venta |-> lineas_venta, pagos_venta |-> pagos_venta,
   cancelaciones |-> cancelaciones, import_log |-> import_log,
   estado_sincronizacion |-> estado_sincronizacion]

\* the locals of a handler that is not running
Idle(response) ==
  [pc |-> "idle", kind |-> "none", items |-> <<>>, i |-> 1,
   okCount |-> 0, dupCount |-> 0, errorCount |-> 0, errorDetails |-> <<>>,
   maxId |-> 0, batchId |-> None, err |-> None, k |-> 1,
   \* history: the tables when the call began and when the current item began,
   \* the items an injected database fault hit, the outcome of each item,
   \* whether the committed item repeats the last committed payload of its sale,
   \* what the cursor statement did and the cursor it found
   start |-> Snapshot, pre |-> Snapshot, faulted |-> {}, outcome |-> <<>>,
   again |-> FALSE, cursorOp |-> "none", cursorBefore |-> None,
   \* history: the route and the body of the request; whether an item of the
   \* call committed while another caller had a transaction open on the same sale
   request |-> None, raced |-> FALSE,
   response |-> response]

Init ==
  /\ sourceId \in SourceIds
  /\ ventas = <<>>
  /\ lineas_venta = {}
  /\ pagos_venta = {}
  /\ cancelaciones = <<>>
  /\ import_log = {}
  /\ estado_sincronizacion = <<>>
  /\ call = [p \in Procs |-> Idle(None)]
  /\ tx = [p \in Procs |-> None]
  /\ held = [p \in Procs |-> 0]
  /\ clock = 0
  /\ uuids = 0
  /\ used = 0
  /\ lastOk = <<>>
  /\ supplied = <<>>
  /\ orphaned = {}

(***************************************************************************)
(* Transactions (db.ts, withTransaction). A transaction holds the rows it  *)
(* has written, per key; the tables change when it commits.                *)
(***************************************************************************)
\* the message of an error of the connection or of the server (not a constraint)
DbDown == "Connection terminated unexpectedly"

\* a transaction that has written nothing: now is its now(); ventas and
\* cancelaciones hold the rows it has upserted, per key; lineas_venta and
\* pagos_venta the rows it has inserted, per sale; del_lineas and del_pagos the
\* committed rows it has deleted
EmptyTx(now) ==
  [now |-> now, ventas |-> <<>>, lineas_venta |-> <<>>, pagos_venta |-> <<>>,
   cancelaciones |-> <<>>, del_lineas |-> {}, del_pagos |-> {}]

\* SELECT inside the transaction t: the row of ventas with this id, as an option
TxVenta(t, id) ==
  IF id \in DOMAIN t.ventas THEN Some(t.ventas[id])
  ELSE IF id \in DOMAIN ventas THEN Some(ventas[id]) ELSE None

\* the rows of lineas_venta of this sale, as the transaction t sees them
TxLineas(t, id) ==
  {r \in lineas_venta : r.venta_id = id /\ r \notin t.del_lineas}
    \cup (IF id \in DOMAIN t.lineas_venta THEN t.lineas_venta[id] ELSE {})

\* the rows of pagos_venta of this sale, as the transaction t sees them
TxPagos(t, id) ==
  {r \in pagos_venta : r.venta_id = id /\ r \notin t.del_pagos}
    \cup (IF id \in DOMAIN t.pagos_venta THEN t.pagos_venta[id] ELSE {})

\* the row of cancelaciones with this id, as the transaction t sees it
TxCancelacion(t, id) ==
  IF id \in DOMAIN t.cancelaciones THEN Some(t.cancelaciones[id])
  ELSE IF id \in DOMAIN cancelaciones THEN Some(cancelaciones[id]) ELSE None

\* faulty variant: the upsert of a sale does not wait for the writer of its row
VentaLockedNever(p, id) == FALSE

\* the row of ventas with this id is locked by the open transaction of another
\* caller (it has upserted or updated it): a write of p to that row waits
VentaLocked(p, id) ==
  \E q \in DOMAIN tx \ {p} : tx[q] # None /\ id \in DOMAIN Val(tx[q]).ventas

\* the same for the row of cancelaciones with this id
CancelacionLocked(p, id) ==
  \E q \in DOMAIN tx \ {p} : tx[q] # None /\ id \in DOMAIN Val(tx[q]).cancelaciones

\* f with key k set to v
Put(f, k, v) == [x \in DOMAIN f \cup {k} |-> IF x = k THEN v ELSE f[x]]

\* the tables snap with the writes of the transaction t applied
ApplyTx(snap, t) ==
  [ventas |-> [id \in DOMAIN snap.ventas \cup DOMAIN t.ventas |->
                 IF id \in DOMAIN t.ventas THEN t.ventas[id] ELSE snap.ventas[id]],
   lineas_venta |-> (snap.lineas_venta \ t.del_lineas)
                      \cup UNION {t.lineas_venta[id] : id \in DOMAIN t.lineas_venta},
   pagos_venta |-> (snap.pagos_venta \ t.del_pagos)
                     \cup UNION {t.pagos_venta[id] : id \in DOMAIN t.pagos_venta},
   cancelaciones |-> [id \in DOMAIN snap.cancelaciones \cup DOMAIN t.cancelaciones |->
                        IF id \in DOMAIN t.cancelaciones THEN t.cancelaciones[id]
                        ELSE snap.cancelaciones[id]]]

\* COMMIT: the tables afterwards
CommitTables(snap, t) == ApplyTx(snap, t)

\* faulty variant: the statements are not undone (no BEGIN: each one committed by itself)
RollbackTablesKeep(snap, t) == ApplyTx(snap, t)

\* faulty variant: only the header upsert is undone (the statements on lines and
\* payments run outside the transaction, each one committed by itself)
RollbackTablesKeepChildren(snap, t) ==
  [ApplyTx(snap, t) EXCEPT !.ventas = snap.ventas, !.cancelaciones = snap.cancelaciones]

\* ROLLBACK (or the loss of the connection): the tables afterwards
RollbackTables(snap, t) == snap

SetTables(snap) ==
  /\ ventas' = snap.ventas
  /\ lineas_venta' = snap.lineas_venta
  /\ pagos_venta' = snap.pagos_venta
  /\ cancelaciones' = snap.cancelaciones

(***************************************************************************)
(* The request handlers.                                                   *)
(***************************************************************************)
\* the natural id of an item of the running batch
NaturalId(c, item) == IF c.kind = "ventas" THEN item.id_venta ELSE item.id_cancelacion_origen

\* faulty variant: the entry names the first item of the batch
ErrorEntryFirst(c, item, reason) ==
  IF c.kind = "ventas" THEN [id_venta |-> c.items[1].id_venta, reason |-> reason]
  ELSE [id_cancelacion_origen |-> c.items[1].id_cancelacion_origen, reason |-> reason]

\* an entry of errorDetails (ventas.ts) or errors (cancelaciones.ts)
ErrorEntry(c, item, reason) ==
  IF c.kind = "ventas" THEN [id_venta |-> item.id_venta, reason |-> reason]
  ELSE [id_cancelacion_origen |-> item.id_cancelacion_origen, reason |-> reason]

\* faulty variant: the first failed item ends the loop (the catch is around the loop)
TallyBreak(c) ==
  IF c.err = None
  THEN [c EXCEPT !.okCount = @ + 1, !.outcome = Append(@, "ok"),
                 !.i = @ + 1, !.pc = "loop"]
  ELSE [c EXCEPT !.errorCount = @ + 1,
                 !.errorDetails = Append(@, ErrorEntry(c, c.items[c.i], Val(c.err))),
                 !.outcome = Append(@, "error"),
                 !.err = None, !.i = Len(c.items) + 1, !.pc = "loop"]

\* faulty variant: no catch around withTransaction: the error of an item ends
\* the call with a failure of the whole batch
TallyRethrow(c) ==
  IF c.err = None
  THEN [c EXCEPT !.okCount = @ + 1, !.outcome = Append(@, "ok"),
                 !.i = @ + 1, !.pc = "loop"]
  ELSE [c EXCEPT !.outcome = Append(@, "error"), !.pc = "idle",
                 !.response = Some([status |-> 500, ok |-> FALSE, error |-> Val(c.err)])]

\* after withTransaction: okCount++ or the catch block, then the next item
Tally(c) ==
  IF c.err = None
  THEN [c EXCEPT !.okCount = @ + 1, !.outcome = Append(@, "ok"),
                 !.i = @ + 1, !.pc = "loop"]
  ELSE [c EXCEPT !.errorCount = @ + 1,
                 !.errorDetails = Append(@, ErrorEntry(c, c.items[c.i], Val(c.err))),
                 !.outcome = Append(@, "error"),
                 !.err = None, !.i = @ + 1, !.pc = "loop"]

\* a statement of the transaction raised: control goes to the catch of withTransaction
Raise(c, reason, injected) ==
  [c EXCEPT !.err = Some(reason), !.pc = "rollback",
            !.faulted = IF injected THEN @ \cup {c.i} ELSE @]

ValidationError == [status |-> 400, ok |-> FALSE, error |-> "VALIDATION_ERROR"]

ServerMisconfig == [status |-> 500, ok |-> FALSE, error |-> "SERVER_MISCONFIG_SOURCE_ID"]

EmptyBatch == [status |-> 200, ok |-> 0, dup |-> 0, error |-> 0, batch_id |-> None, errors |-> <<>>]

\* res.json({ ok, dup, error, batch_id, errors [, max_id_cancelacion] })
Summary(c) ==
  IF c.kind = "ventas"
  THEN [status |-> 200, ok |-> c.okCount, dup |-> c.dupCount, error |-> c.errorCount,
        batch_id |-> c.batchId, errors |-> c.errorDetails]
  ELSE [status |-> 200, ok |-> c.okCount, dup |-> c.dupCount, error |-> c.errorCount,
        batch_id |-> c.batchId, errors |-> c.errorDetails, max_id_cancelacion |-> c.maxId]

\* the handler returns the response r
Respond(c, r) == [c EXCEPT !.pc = "idle", !.response = Some(r)]

\* the handler has received req.body on the route of kind
Received(kind, body) ==
  [Idle(None) EXCEPT !.request = Some([kind |-> kind, body |-> body])]

\* the handler starts on a validated, non-empty batch
Start(kind, items) ==
  [Idle(None) EXCEPT !.pc = "loop", !.kind = kind, !.items = items,
                     !.batchId = Some(uuids + 1)]

\* faulty variant: no short-circuit for an empty array
SubmitVentasNoEmptyCheck(p, body) ==
  /\ call[p].pc = "idle"
  /\ IF ~BatchVentasValid(body)
     THEN /\ call' = [call EXCEPT ![p] = Respond(Received("ventas", body), ValidationError)]
          /\ UNCHANGED <<uuids, used>>
     ELSE IF sourceId = ""
     THEN /\ call' = [call EXCEPT ![p] = Respond(Received("ventas", body), ServerMisconfig)]
          /\ UNCHANGED <<uuids, used>>
     ELSE /\ used + Len(body) <= MaxItems
          /\ call' = [call EXCEPT ![p] =
                      [Start("ventas", BatchVentasParse(body))
                         EXCEPT !.request = Some([kind |-> "ventas", body |-> body])]]
          /\ uuids' = uuids + 1
          /\ used' = used + Len(body)
  /\ UNCHANGED <<sourceId, tables, import_log, estado_sincronizacion, tx, held, clock,
                 lastOk, supplied, orphaned>>

\* faulty variant: no check of SOURCE_ID
SubmitVentasNoSourceCheck(p, body) ==
  /\ call[p].pc = "idle"
  /\ IF ~BatchVentasValid(body)
     THEN /\ call' = [call EXCEPT ![p] = Respond(Received("ventas", body), ValidationError)]
          /\ UNCHANGED <<uuids, used>>
     ELSE IF Len(body) = 0
     THEN /\ call' = [call EXCEPT ![p] = Respond(Received("ventas", body), EmptyBatch)]
          /\ UNCHANGED <<uuids, used>>
     ELSE /\ used + Len(body) <= MaxItems
          /\ call' = [call EXCEPT ![p] =
                      [Start("ventas", BatchVentasParse(body))
                         EXCEPT !.request = Some([kind |-> "ventas", body |-> body])]]
          /\ uuids' = uuids + 1
          /\ used' = used + Len(body)
  /\ UNCHANGED <<sourceId, tables, import_log, estado_sincronizacion, tx, held, clock,
                 lastOk, supplied, orphaned>>

\* faulty variant: the items are validated one by one and the malformed ones are skipped
SubmitVentasSkipMalformed(p, body) ==
  /\ call[p].pc = "idle"
  /\ IF Len(SelectSeq(body, VentaValid)) = 0
     THEN /\ call' = [call EXCEPT ![p] = Respond(Received("ventas", body), EmptyBatch)]
          /\ UNCHANGED <<uuids, used>>
     ELSE IF sourceId = ""
     THEN /\ call' = [call EXCEPT ![p] = Respond(Received("ventas", body), ServerMisconfig)]
          /\ UNCHANGED <<uuids, used>>
     ELSE /\ used + Len(body) <= MaxItems
          /\ call' = [call EXCEPT ![p] =
                      [Start("ventas", BatchVentasParse(SelectSeq(body, VentaValid)))
                         EXCEPT !.request = Some([kind |-> "ventas", body |-> body])]]
          /\ uuids' = uuids + 1
          /\ used' = used + Len(body)
  /\ UNCHANGED <<sourceId, tables, import_log, estado_sincronizacion, tx, held, clock,
                 lastOk, supplied, orphaned>>

\* POST /ventas/import-batch, up to the first await
SubmitVentas(p, body) ==
  /\ call[p].pc = "idle"
  /\ IF ~BatchVentasValid(body)
     THEN /\ call' = [call EXCEPT ![p] = Respond(Received("ventas", body), ValidationError)]
          /\ UNCHANGED <<uuids, used>>
     ELSE IF Len(body) = 0
     THEN /\ call' = [call EXCEPT ![p] = Respond(Received("ventas", body), EmptyBatch)]
          /\ UNCHANGED <<uuids, used>>
     ELSE IF sourceId = ""
     THEN /\ call' = [call EXCEPT ![p] = Respond(Received("ventas", body), ServerMisconfig)]
          /\ UNCHANGED <<uuids, used>>
     ELSE /\ used + Len(body) <= MaxItems
          /\ call' = [call EXCEPT ![p] =
                      [Start("ventas", BatchVentasParse(body))
                         EXCEPT !.request = Some([kind |-> "ventas", body |-> body])]]
          /\ uuids' = uuids + 1
          /\ used' = used + Len(body)
  /\ UNCHANGED <<sourceId, tables, import_log, estado_sincronizacion, tx, held, clock,
                 lastOk, supplied, orphaned>>

\* POST /cancelaciones/import-batch, up to the first await
SubmitCancelaciones(p, body) ==
  /\ call[p].pc = "idle"
  /\ IF ~BatchCancelacionesValid(body)
     THEN /\ call' = [call EXCEPT ![p] = Respond(Received("cancelaciones", body), ValidationError)]
          /\ UNCHANGED <<uuids, used>>
     ELSE IF Len(body) = 0
     THEN /\ call' = [call EXCEPT ![p] = Respond(Received("cancelaciones", body), EmptyBatch)]
          /\ UNCHANGED <<uuids, used>>
     ELSE IF sourceId = ""
     THEN /\ call' = [call EXCEPT ![p] = Respond(Received("cancelaciones", body), ServerMisconfig)]
          /\ UNCHANGED <<uuids, used>>
     ELSE /\ used + Len(body) <= MaxItems
          /\ call' = [call EXCEPT ![p] =
                      [Start("cancelaciones", BatchCancelacionesParse(body))
                         EXCEPT !.request = Some([kind |-> "cancelaciones", body |-> body])]]
          /\ uuids' = uuids + 1
          /\ used' = used + Len(body)
  /\ UNCHANGED <<sourceId, tables, import_log, estado_sincronizacion, tx, held, clock,
                 lastOk, supplied, orphaned>>

\* faulty variant: the id of the last item instead of the largest one
NextMaxIdLast(maxId, id) == id

\* maxIdVenta = Math.max(maxIdVenta, venta.id_venta), and the same for maxCancelId
NextMaxId(maxId, id) == Max(maxId, id)

\* top of the for loop: maxIdVenta / maxCancelId, then pool.connect() of withTransaction
PoolConnect(p) ==
  LET c == call[p]
      c1 == [c EXCEPT !.maxId = NextMaxId(@, NaturalId(c, c.items[c.i])), !.pre = Snapshot,
                      !.err = None, !.k = 1, !.again = FALSE]
  IN /\ c.pc = "loop"
     /\ c.i <= Len(c.items)
     /\ \E ok \in BOOLEAN :
          IF ok
          THEN /\ call' = [call EXCEPT ![p] = [c1 EXCEPT !.pc = "begin"]]
               /\ held' = [held EXCEPT ![p] = @ + 1]
          ELSE \* connect() is outside the try of withTransaction: nothing to release
               /\ call' = [call EXCEPT ![p] =
                    Tally([c1 EXCEPT !.err = Some(DbDown), !.faulted = @ \cup {c.i}])]
               /\ UNCHANGED held
     /\ UNCHANGED <<sourceId, tables, import_log, estado_sincronizacion, tx, clock,
                    uuids, used, lastOk, supplied, orphaned>>

\* client.query("BEGIN")
Begin(p) ==
  LET c == call[p]
  IN /\ c.pc = "begin"
     /\ \E ok \in BOOLEAN :
          IF ok
          THEN /\ tx' = [tx EXCEPT ![p] = Some(EmptyTx(clock + 1))]
               /\ clock' = clock + 1
               /\ call' = [call EXCEPT ![p].pc =
                             IF c.kind = "ventas" THEN "upsertVenta" ELSE "upsertCancelacion"]
          ELSE /\ call' = [call EXCEPT ![p] = Raise(c, DbDown, TRUE)]
               /\ UNCHANGED <<tx, clock>>
     /\ UNCHANGED <<sourceId, tables, import_log, estado_sincronizacion, held,
                    uuids, used, lastOk, supplied, orphaned>>

\* what a statement of the transaction leaves alone
StatementFrame ==
  UNCHANGED <<sourceId, tables, import_log, estado_sincronizacion, held, clock,
              uuids, used, lastOk, supplied, orphaned>>

\* INSERT INTO ventas ... ON CONFLICT (venta_id) DO UPDATE
UpsertVenta(p) ==
  LET c == call[p]
      t == Val(tx[p])
      venta == c.items[c.i]
      id == venta.id_venta
  IN /\ c.pc = "upsertVenta"
     /\ \E ok \in BOOLEAN :
          IF ok
          THEN /\ ~VentaLocked(p, id)
               /\ tx' = [tx EXCEPT ![p] = Some([t EXCEPT !.ventas =
                          Put(@, id, UpsertVentaRow(TxVenta(t, id), HeaderParams(venta), t.now))])]
               /\ call' = [call EXCEPT ![p].pc = "deleteLineas"]
          ELSE /\ call' = [call EXCEPT ![p] = Raise(c, DbDown, TRUE)]
               /\ UNCHANGED tx
     /\ StatementFrame

\* DELETE FROM lineas_venta WHERE venta_id = $1
DeleteLineas(p) ==
  LET c == call[p]
      t == Val(tx[p])
      venta == c.items[c.i]
      id == venta.id_venta
      left == DeleteLineasVenta(TxLineas(t, id), id)
  IN /\ c.pc = "deleteLineas"
     /\ \E ok \in BOOLEAN :
          IF ok
          THEN /\ tx' = [tx EXCEPT ![p] = Some([t EXCEPT
                          !.lineas_venta = Put(@, id, left \ lineas_venta),
                          !.del_lineas = @ \cup ((TxLineas(t, id) \cap lineas_venta) \ left)])]
               /\ call' = [call EXCEPT ![p].k = 1, ![p].pc =
                             IF Len(venta.lineas) = 0 THEN "deletePagos" ELSE "insertLinea"]
          ELSE /\ call' = [call EXCEPT ![p] = Raise(c, DbDown, TRUE)]
               /\ UNCHANGED tx
     /\ StatementFrame

\* one turn of the loop over venta.lineas: INSERT INTO lineas_venta
InsertLinea(p) ==
  LET c == call[p]
      t == Val(tx[p])
      venta == c.items[c.i]
      id == venta.id_venta
      row == LineaParams(id, c.k, venta.lineas[c.k])
      e == InsertLineaError(TxLineas(t, id), row)
  IN /\ c.pc = "insertLinea"
     /\ \E ok \in BOOLEAN :
          IF ~ok
          THEN /\ call' = [call EXCEPT ![p] = Raise(c, DbDown, TRUE)]
               /\ UNCHANGED tx
          ELSE IF e # None
          THEN /\ call' = [call EXCEPT ![p] = Raise(c, Val(e), FALSE)]
               /\ UNCHANGED tx
          ELSE /\ tx' = [tx EXCEPT ![p] = Some([t EXCEPT !.lineas_venta =
                          Put(@, id, (IF id \in DOMAIN @ THEN @[id] ELSE {}) \cup {row})])]
               /\ call' = [call EXCEPT ![p].k = @ + 1, ![p].pc =
                             IF c.k = Len(venta.lineas) THEN "deletePagos" ELSE "insertLinea"]
     /\ StatementFrame

\* DELETE FROM pagos_venta WHERE venta_id = $1
DeletePagos(p) ==
  LET c == call[p]
      t == Val(tx[p])
      venta == c.items[c.i]
      id == venta.id_venta
      left == DeletePagosVenta(TxPagos(t, id), id)
  IN /\ c.pc = "deletePagos"
     /\ \E ok \in BOOLEAN :
          IF ok
          THEN /\ tx' = [tx EXCEPT ![p] = Some([t EXCEPT
                          !.pagos_venta = Put(@, id, left \ pagos_venta),
                          !.del_pagos = @ \cup ((TxPagos(t, id) \cap pagos_venta) \ left)])]
               /\ call' = [call EXCEPT ![p].k = 1, ![p].pc =
                             IF Len(venta.pagos) = 0 THEN "commit" ELSE "insertPago"]
          ELSE /\ call' = [call EXCEPT ![p] = Raise(c, DbDown, TRUE)]
               /\ UNCHANGED tx
     /\ StatementFrame

\* one turn of the loop over venta.pagos: INSERT INTO pagos_venta
InsertPago(p) ==
  LET c == call[p]
      t == Val(tx[p])
      venta == c.items[c.i]
      id == venta.id_venta
      row == PagoParams(id, venta.pagos[c.k])
      e == InsertPagoError(TxPagos(t, id), row)
  IN /\ c.pc = "insertPago"
     /\ \E ok \in BOOLEAN :
          IF ~ok
          THEN /\ call' = [call EXCEPT ![p] = Raise(c, DbDown, TRUE)]
               /\ UNCHANGED tx
          ELSE IF e # None
          THEN /\ call' = [call EXCEPT ![p] = Raise(c, Val(e), FALSE)]
               /\ UNCHANGED tx
          ELSE /\ tx' = [tx EXCEPT ![p] = Some([t EXCEPT !.pagos_venta =
                          Put(@, id, (IF id \in DOMAIN @ THEN @[id] ELSE {}) \cup {row})])]
               /\ call' = [call EXCEPT ![p].k = @ + 1, ![p].pc =
                             IF c.k = Len(venta.pagos) THEN "commit" ELSE "insertPago"]
     /\ StatementFrame

\* faulty variant: the upsert of the cancellation runs on the pool, outside the
\* transaction of the item, and is committed at once
UpsertCancelacionAutocommit(p) ==
  LET c == call[p]
      item == c.items[c.i]
      id == item.id_cancelacion_origen
      old == IF id \in DOMAIN cancelaciones THEN Some(cancelaciones[id]) ELSE None
  IN /\ c.pc = "upsertCancelacion"
     /\ \E ok \in BOOLEAN :
          IF ok
          THEN /\ cancelaciones' = Put(cancelaciones, id, UpsertCancelacionRow(old, item))
               /\ call' = [call EXCEPT ![p].pc =
                             IF item.venta_id # None THEN "updateVenta" ELSE "commit"]
          ELSE /\ call' = [call EXCEPT ![p] = Raise(c, DbDown, TRUE)]
               /\ UNCHANGED cancelaciones
     /\ UNCHANGED <<sourceId, ventas, lineas_venta, pagos_venta, import_log,
                    estado_sincronizacion, tx, held, clock, uuids, used, lastOk, supplied,
                    orphaned>>

\* INSERT INTO cancelaciones ... ON CONFLICT (id_cancelacion_origen) DO UPDATE
UpsertCancelacion(p) ==
  LET c == call[p]
      t == Val(tx[p])
      item == c.items[c.i]
      id == item.id_cancelacion_origen
  IN /\ c.pc = "upsertCancelacion"
     /\ \E ok \in BOOLEAN :
          IF ok
          THEN /\ ~CancelacionLocked(p, id)
               /\ tx' = [tx EXCEPT ![p] = Some([t EXCEPT !.cancelaciones =
                          Put(@, id, UpsertCancelacionRow(TxCancelacion(t, id), item))])]
               /\ call' = [call EXCEPT ![p].pc =
                             IF item.venta_id # None THEN "updateVenta" ELSE "commit"]
          ELSE /\ call' = [call EXCEPT ![p] = Raise(c, DbDown, TRUE)]
               /\ UNCHANGED tx
     /\ StatementFrame

\* if (c.venta_id != null) UPDATE ventas SET cancelada = true ...
UpdateVenta(p) ==
  LET c == call[p]
      t == Val(tx[p])
      item == c.items[c.i]
      v == Val(item.venta_id)
      row == UpdateVentaCancelada(TxVenta(t, v), item, t.now)
  IN /\ c.pc = "updateVenta"
     /\ \E ok \in BOOLEAN :
          IF ok
          THEN /\ ~(v \in DOMAIN ventas /\ VentaLocked(p, v))
               /\ tx' = [tx EXCEPT ![p] = Some([t EXCEPT !.ventas =
                          IF row # None THEN Put(@, v, Val(row)) ELSE @])]
               /\ call' = [call EXCEPT ![p].pc = "commit"]
          ELSE /\ call' = [call EXCEPT ![p] = Raise(c, DbDown, TRUE)]
               /\ UNCHANGED tx
     /\ StatementFrame

\* the columns of cancelaciones that the upsert writes, the key apart
CancelacionCols ==
  {"venta_id", "fecha_emision", "fecha_cancelacion", "motivo_cancelacion",
   "folio_sustitucion", "uuid_cfdi"}

\* history: per column, the value of item when it is not null, else the last one known
LastNonNull(known, item) ==
  [f \in CancelacionCols |->
     IF item[f] # None THEN item[f]
     ELSE IF item.id_cancelacion_origen \in DOMAIN known
     THEN known[item.id_cancelacion_origen][f] ELSE None]

\* history: another caller has a transaction open on the sale of p's current item
Racing(p) ==
  /\ call[p].kind = "ventas"
  /\ \E q \in DOMAIN tx \ {p} :
       /\ tx[q] # None /\ call[q].kind = "ventas"
       /\ call[q].items[call[q].i].id_venta = call[p].items[call[p].i].id_venta

\* client.query("COMMIT")
Commit(p) ==
  LET c == call[p]
      t == Val(tx[p])
      item == c.items[c.i]
  IN /\ c.pc = "commit"
     /\ \E ok \in BOOLEAN :
          IF ok
          THEN /\ SetTables(CommitTables(Snapshot, t))
               /\ tx' = [tx EXCEPT ![p] = None]
               /\ call' = [call EXCEPT ![p].pc = "release",
                                       ![p].again = /\ c.kind = "ventas"
                                                    /\ item.id_venta \in DOMAIN lastOk
                                                    /\ lastOk[item.id_venta] = item,
                                       ![p].raced = @ \/ Racing(p)]
               /\ lastOk' = IF c.kind = "ventas" THEN Put(lastOk, item.id_venta, item)
                            ELSE lastOk
               /\ supplied' = IF c.kind = "cancelaciones"
                              THEN Put(supplied, item.id_cancelacion_origen,
                                       LastNonNull(supplied, item))
                              ELSE supplied
               /\ orphaned' = IF /\ c.kind = "cancelaciones"
                                 /\ item.venta_id # None
                                 /\ Val(item.venta_id) \notin DOMAIN ventas
                              THEN orphaned \cup {Val(item.venta_id)}
                              ELSE orphaned
          ELSE /\ call' = [call EXCEPT ![p] = Raise(c, DbDown, TRUE)]
               /\ UNCHANGED <<tables, tx, lastOk, supplied, orphaned>>
     /\ UNCHANGED <<sourceId, import_log, estado_sincronizacion, held, clock, uuids, used>>

\* catch (err) { await client.query("ROLLBACK"); throw err; }
Rollback(p) ==
  LET c == call[p]
  IN /\ c.pc = "rollback"
     /\ \E ok \in BOOLEAN :
          /\ SetTables(IF tx[p] = None THEN Snapshot
                       ELSE RollbackTables(Snapshot, Val(tx[p])))
          /\ tx' = [tx EXCEPT ![p] = None]
          /\ call' = [call EXCEPT ![p].pc = "release",
                                  ![p].err = IF ok THEN c.err ELSE Some(DbDown)]
     /\ UNCHANGED <<sourceId, import_log, estado_sincronizacion, held, clock, uuids,
                    used, lastOk, supplied, orphaned>>

\* faulty variant: client.release() at the end of the try block, not in a finally
ReleaseNoFinally(p) ==
  LET c == call[p]
  IN /\ c.pc = "release"
     /\ held' = [held EXCEPT ![p] = IF c.err = None THEN @ - 1 ELSE @]
     /\ call' = [call EXCEPT ![p] = Tally(c)]
     /\ UNCHANGED <<sourceId, tables, import_log, estado_sincronizacion, tx, clock,
                    uuids, used, lastOk, supplied, orphaned>>

\* finally { client.release(); } and back in the loop: okCount++ or the catch block
Release(p) ==
  LET c == call[p]
  IN /\ c.pc = "release"
     /\ held' = [held EXCEPT ![p] = @ - 1]
     /\ call' = [call EXCEPT ![p] = Tally(c)]
     /\ UNCHANGED <<sourceId, tables, import_log, estado_sincronizacion, tx, clock,
                    uuids, used, lastOk, supplied, orphaned>>

\* faulty variant: the record counts the items that succeeded, not the items received
ImportLogRowOkOnly(c) ==
  [batch_id |-> Val(c.batchId), source_id |-> sourceId, items |-> c.okCount,
   ok |-> c.okCount, dup |-> c.dupCount, error |-> c.errorCount,
   details |-> c.errorDetails]

\* the row of import_log of the running batch
ImportLogRow(c) ==
  [batch_id |-> Val(c.batchId), source_id |-> sourceId, items |-> Len(c.items),
   ok |-> c.okCount, dup |-> c.dupCount, error |-> c.errorCount,
   details |-> c.errorDetails]

\* faulty variant: no try/catch around the INSERT INTO import_log: when it fails the
\* call ends with a failure of the whole batch
InsertImportLogFatal(p) ==
  LET c == call[p]
  IN /\ c.pc = "loop"
     /\ c.i > Len(c.items)
     /\ \E ok \in BOOLEAN :
          IF ok
          THEN /\ import_log' = import_log \cup {ImportLogRow(c)}
               /\ call' = [call EXCEPT ![p] =
                             IF c.kind = "ventas" /\ c.maxId > 0
                             THEN [c EXCEPT !.pc = "cursor"]
                             ELSE Respond(c, Summary(c))]
          ELSE /\ import_log' = import_log
               /\ call' = [call EXCEPT ![p] =
                             Respond(c, [status |-> 500, ok |-> FALSE, error |-> DbDown])]
     /\ UNCHANGED <<sourceId, tables, estado_sincronizacion, tx, held, clock, uuids,
                    used, lastOk, supplied, orphaned>>

\* after the loop: INSERT INTO import_log in its try/catch; cancelaciones.ts then
\* responds, and so does ventas.ts when maxIdVenta is not positive
InsertImportLog(p) ==
  LET c == call[p]
  IN /\ c.pc = "loop"
     /\ c.i > Len(c.items)
     /\ \E ok \in BOOLEAN :
          import_log' = IF ok THEN import_log \cup {ImportLogRow(c)} ELSE import_log
     /\ call' = [call EXCEPT ![p] =
                   IF c.kind = "ventas" /\ c.maxId > 0
                   THEN [c EXCEPT !.pc = "cursor"]
                   ELSE Respond(c, Summary(c))]
     /\ UNCHANGED <<sourceId, tables, estado_sincronizacion, tx, held, clock, uuids,
                    used, lastOk, supplied, orphaned>>

\* the stored cursor of a source, as an option
Cursor(id_fuente) ==
  IF id_fuente \in DOMAIN estado_sincronizacion
  THEN Some(estado_sincronizacion[id_fuente]) ELSE None

\* if (maxIdVenta > 0) INSERT INTO estado_sincronizacion ... in its try/catch; res.json
AdvanceCursor(p) ==
  LET c == call[p]
  IN /\ c.pc = "cursor"
     /\ \E ok \in BOOLEAN :
          /\ estado_sincronizacion' =
               IF ok THEN Put(estado_sincronizacion, sourceId,
                              UpsertCursor(Cursor(sourceId), c.maxId))
               ELSE estado_sincronizacion
          /\ call' = [call EXCEPT ![p] =
                        Respond([c EXCEPT !.cursorOp = IF ok THEN "ok" ELSE "failed",
                                          !.cursorBefore = Cursor(sourceId)],
                                Summary(c))]
     /\ UNCHANGED <<sourceId, tables, import_log, tx, held, clock, uuids, used,
                    lastOk, supplied, orphaned>>

Next ==
  \E p \in Procs :
    \/ \E body \in Arrays(RawVentas, MaxItems - used) : SubmitVentas(p, body)
    \/ \E body \in Arrays(RawCancelaciones, MaxItems - used) : SubmitCancelaciones(p, body)
    \/ PoolConnect(p)
    \/ Begin(p)
    \/ UpsertVenta(p)
    \/ DeleteLineas(p)
    \/ InsertLinea(p)
    \/ DeletePagos(p)
    \/ InsertPago(p)
    \/ UpsertCancelacion(p)
    \/ UpdateVenta(p)
    \/ Commit(p)
    \/ Rollback(p)
    \/ Release(p)
    \/ InsertImportLog(p)
    \/ AdvanceCursor(p)

Spec == Init /\ [][Next]_vars

\* a step of the running handler of p: the promise it awaits settles
Step(p) ==
  \/ PoolConnect(p)
  \/ Begin(p)
  \/ UpsertVenta(p)
  \/ DeleteLineas(p)
  \/ InsertLinea(p)
  \/ DeletePagos(p)
  \/ InsertPago(p)
  \/ UpsertCancelacion(p)
  \/ UpdateVenta(p)
  \/ Commit(p)
  \/ Rollback(p)
  \/ Release(p)
  \/ InsertImportLog(p)
  \/ AdvanceCursor(p)

\* the calls of the specification with fairness: at most MaxFairItems items, of
\* a sale that is stored, a sale that the database rejects and a cancellation
FairNext ==
  \E p \in Procs :
    \/ \E body \in Arrays({VentaA, VentaP}, MaxFairItems - used) : SubmitVentas(p, body)
    \/ \E body \in Arrays({CancelA}, MaxFairItems - used) : SubmitCancelaciones(p, body)
    \/ Step(p)

\* two callers in parallel, each running POST /ventas/import-batch
Callers == {1, 2}

RaceInit ==
  /\ sourceId = "POS-01"
  /\ ventas = <<>>
  /\ lineas_venta = {}
  /\ pagos_venta = {}
  /\ cancelaciones = <<>>
  /\ import_log = {}
  /\ estado_sincronizacion = <<>>
  /\ call = [p \in Callers |-> Idle(None)]
  /\ tx = [p \in Callers |-> None]
  /\ held = [p \in Callers |-> 0]
  /\ clock = 0
  /\ uuids = 0
  /\ used = 0
  /\ lastOk = <<>>
  /\ supplied = <<>>
  /\ orphaned = {}

\* no database fault has hit the running call of p
Steady(p) == call[p].faulted = {}

\* the specification with two callers: each caller makes one call, the two
\* calls carry at most MaxRaceItems items in all, each item one of two payloads
\* of the same sale; database faults hit the transactions of caller 2 only
RaceNext ==
  \E p \in Callers :
    \/ /\ call[p].request = None
       /\ \E body \in Arrays({VentaA, VentaB}, MaxRaceItems - used) : SubmitVentas(p, body)
    \/ PoolConnect(p) /\ (p = 1 => Steady(p)')
    \/ Begin(p) /\ (p = 1 => Steady(p)')
    \/ UpsertVenta(p) /\ (p = 1 => Steady(p)')
    \/ DeleteLineas(p) /\ (p = 1 => Steady(p)')
    \/ InsertLinea(p) /\ (p = 1 => Steady(p)')
    \/ DeletePagos(p) /\ (p = 1 => Steady(p)')
    \/ InsertPago(p) /\ (p = 1 => Steady(p)')
    \/ Commit(p) /\ (p = 1 => Steady(p)')
    \/ Rollback(p)
    \/ Release(p)
    \/ InsertImportLog(p)
    \/ AdvanceCursor(p)

RaceSpec == RaceInit /\ [][RaceNext]_vars

\* the specification with two callers and two sale ids: each caller makes one
\* call, the two calls carry at most MaxCursorItems items in all, each item a
\* sale with id 1 or a sale with id 2; database faults hit the transactions of
\* caller 2 only, and the cursor upsert of either caller
CursorNext ==
  \E p \in Callers :
    \/ /\ call[p].request = None
       /\ \E body \in Arrays({VentaC, VentaP}, MaxCursorItems - used) : SubmitVentas(p, body)
    \/ PoolConnect(p) /\ (p = 1 => Steady(p)')
    \/ Begin(p) /\ (p = 1 => Steady(p)')
    \/ UpsertVenta(p) /\ (p = 1 => Steady(p)')
    \/ DeleteLineas(p) /\ (p = 1 => Steady(p)')
    \/ InsertLinea(p) /\ (p = 1 => Steady(p)')
    \/ DeletePagos(p) /\ (p = 1 => Steady(p)')
    \/ InsertPago(p) /\ (p = 1 => Steady(p)')
    \/ Commit(p) /\ (p = 1 => Steady(p)')
    \/ Rollback(p)
    \/ Release(p)
    \/ InsertImportLog(p)
    \/ AdvanceCursor(p)

CursorSpec == RaceInit /\ [][CursorNext]_vars

\* the database after the sale VentaA has been imported and then cancelled by
\* CancelA, both audit inserts and the cursor upsert having succeeded
SoftInit ==
  /\ sourceId = "POS-01"
  /\ ventas = Put(<<>>, 1,
                  Val(UpdateVentaCancelada(
                        Some(UpsertVentaRow(None, HeaderParams(VentaParse(VentaA)), 1)),
                        CancelacionParse(CancelA), 2)))
  /\ lineas_venta = LineasOf(VentaParse(VentaA))
  /\ pagos_venta = PagosOf(VentaParse(VentaA))
  /\ cancelaciones = Put(<<>>, 1, UpsertCancelacionRow(None, CancelacionParse(CancelA)))
  /\ import_log =
       {[batch_id |-> 1, source_id |-> "POS-01", items |-> 1, ok |-> 1, dup |-> 0,
         error |-> 0, details |-> <<>>],
        [batch_id |-> 2, source_id |-> "POS-01", items |-> 1, ok |-> 1, dup |-> 0,
         error |-> 0, details |-> <<>>]}
  /\ estado_sincronizacion = Put(<<>>, "POS-01", 1)
  /\ call = [p \in Procs |-> Idle(None)]
  /\ tx = [p \in Procs |-> None]
  /\ held = [p \in Procs |-> 0]
  /\ clock = 2
  /\ uuids = 2
  /\ used = 0
  /\ lastOk = Put(<<>>, 1, VentaParse(VentaA))
  /\ supplied = Put(<<>>, 1, LastNonNull(<<>>, CancelacionParse(CancelA)))
  /\ orphaned = {}

\* the calls of the specification that starts from a cancelled sale: at most
\* MaxSoftItems items, each a new import of that sale or of its cancellation
SoftNext ==
  \E p \in Procs :
    \/ \E body \in Arrays({VentaB, VentaC}, MaxSoftItems - used) : SubmitVentas(p, body)
    \/ \E body \in Arrays({CancelA, CancelB}, MaxSoftItems - used) : SubmitCancelaciones(p, body)
    \/ Step(p)

SoftSpec == SoftInit /\ [][SoftNext]_vars

\* every promise the handler awaits settles (resolves or rejects)
FairSpec == Init /\ [][FairNext]_vars /\ \A p \in Procs : WF_vars(Step(p))

(***************************************************************************)
(* Properties.                                                             *)
(***************************************************************************)
\* a validated, non-empty batch has been answered with its summary
Done(p) == call[p].pc = "idle" /\ call[p].kind # "none"

\* the transaction of the current item has committed; the item is not yet tallied
Committed(p) == call[p].pc = "release" /\ call[p].err = None

\* the current item of the running batch
Item(p) == call[p].items[call[p].i]

\* the stored state of a sale in the tables snap: its header without the update
\* timestamp, its line rows, its payment rows
SaleState(snap, id) ==
  [header |-> IF id \in DOMAIN snap.ventas
              THEN Some(Cols(snap.ventas[id], HeaderCols \cup CancelCols)) ELSE None,
   lineas |-> {r \in snap.lineas_venta : r.venta_id = id},
   pagos |-> {r \in snap.pagos_venta : r.venta_id = id}]

\* the stored sale id is exactly what the payload venta stands for
StoredAs(snap, id, venta) ==
  /\ id \in DOMAIN snap.ventas
  /\ Cols(snap.ventas[id], HeaderCols) = HeaderParams(venta)
  /\ {r \in snap.lineas_venta : r.venta_id = id} = LineasOf(venta)
  /\ {r \in snap.pagos_venta : r.venta_id = id} = PagosOf(venta)

\* the database rejects the payload: unknown product, payment method outside the
\* enum, or two payments with one index
RejectedByDb(venta) ==
  \/ \E k \in 1..Len(venta.lineas) : Val(venta.lineas[k].articulo) \notin Productos
  \/ \E k \in 1..Len(venta.pagos) : venta.pagos[k].metodo \notin tipo_metodo_pago
  \/ \E k1, k2 \in 1..Len(venta.pagos) : k1 # k2 /\ venta.pagos[k1].idx = venta.pagos[k2].idx

\* C1: importing again the payload that the last committed import of a sale id
\* carried leaves the stored state of that sale (header without the update
\* timestamp, line rows, payment rows) as it was.
C1_Idempotence ==
  \A p \in Procs :
    Committed(p) /\ call[p].again =>
      SaleState(Snapshot, Item(p).id_venta) = SaleState(call[p].pre, Item(p).id_venta)

C1_Witness ==
  \E p \in Procs :
    /\ Committed(p) /\ call[p].again
    /\ Len(Item(p).lineas) = 3
    /\ StoredAs(Snapshot, Item(p).id_venta, Item(p))

\* C2: when the import of a sale has committed, the stored line rows of that sale
\* are exactly the lines of its payload, one row per element, whatever was stored.
C2_FullReplaceLineas ==
  \A p \in Procs :
    Committed(p) /\ call[p].kind = "ventas" =>
      LET rows == {r \in lineas_venta : r.venta_id = Item(p).id_venta}
      IN /\ rows = LineasOf(Item(p))
         /\ Cardinality(rows) = Len(Item(p).lineas)

C2_Witness ==
  \E p \in Procs :
    /\ Committed(p) /\ call[p].kind = "ventas"
    /\ Cardinality({r \in call[p].pre.lineas_venta : r.venta_id = Item(p).id_venta}) = 3
    /\ Cardinality({r \in lineas_venta : r.venta_id = Item(p).id_venta}) = 1

\* C3: in every state, also while a transaction is open and after one has failed,
\* the committed header (the columns the import writes), lines and payments of
\* every sale id are those of one payload, the last one committed for that id;
\* a sale id with no committed import has no row at all.
C3_Atomicity ==
  \A id \in DOMAIN ventas \cup DOMAIN lastOk
               \cup {r.venta_id : r \in lineas_venta} \cup {r.venta_id : r \in pagos_venta} :
    id \in DOMAIN lastOk /\ StoredAs(Snapshot, id, lastOk[id])

C3_Witness ==
  \E p \in Procs :
    /\ call[p].pc = "release" /\ call[p].err # None /\ call[p].kind = "ventas"
    /\ call[p].i \notin call[p].faulted
    /\ Len(Item(p).lineas) = 2
    /\ Item(p).id_venta \in DOMAIN ventas
    /\ HeaderParams(Item(p)) # Cols(ventas[Item(p).id_venta], HeaderCols)

\* C4: when a sales batch of n items is answered, with F the items whose write
\* failed (rejected by the database, or hit by a database fault), ok = n - |F| and
\* error = |F|; a sale id none of whose items succeeded is stored as before the
\* batch, and every other sale id is stored as its last successful item says.
C4_PartialFailureIsolation ==
  \A p \in Procs :
    Done(p) /\ call[p].kind = "ventas" =>
      LET c == call[p]
          n == Len(c.items)
          F == {j \in 1..n : j \in c.faulted \/ RejectedByDb(c.items[j])}
      IN /\ Val(c.response).ok = n - Cardinality(F)
         /\ Val(c.response).error = Cardinality(F)
         /\ \A j \in 1..n :
              LET id == c.items[j].id_venta
                  oks == {x \in (1..n) \ F : c.items[x].id_venta = id}
              IN IF oks = {}
                 THEN SaleState(Snapshot, id) = SaleState(c.start, id)
                 ELSE StoredAs(Snapshot, id, c.items[CHOOSE x \in oks : \A y \in oks : y <= x])

C4_Witness ==
  \E p \in Procs :
    /\ Done(p) /\ call[p].kind = "ventas"
    /\ call[p].outcome = <<"error", "ok">>
    /\ call[p].faulted = {}
    /\ call[p].items[1].id_venta # call[p].items[2].id_venta
    /\ call[p].items[1].id_venta \notin DOMAIN ventas
    /\ StoredAs(Snapshot, call[p].items[2].id_venta, call[p].items[2])

\* the largest id_venta of a non-empty array of sales
MaxIdVenta(items) ==
  CHOOSE m \in {items[j].id_venta : j \in 1..Len(items)} :
    \A j \in 1..Len(items) : items[j].id_venta <= m

\* a step never lowers nor removes a stored cursor, and a cursor upsert that
\* succeeds stores the larger of the stored value and the candidate
C5_Step ==
  /\ \A s \in DOMAIN estado_sincronizacion :
       /\ s \in DOMAIN estado_sincronizacion'
       /\ estado_sincronizacion'[s] >= estado_sincronizacion[s]
  /\ \A p \in Procs :
       call[p].pc = "cursor" /\ call'[p].cursorOp = "ok" =>
         /\ sourceId \in DOMAIN estado_sincronizacion'
         /\ estado_sincronizacion'[sourceId] =
              IF sourceId \in DOMAIN estado_sincronizacion
              THEN Max(estado_sincronizacion[sourceId], call[p].maxId)
              ELSE call[p].maxId

\* C5: the stored cursor of a source never decreases, and a call whose cursor
\* upsert with candidate c runs on the stored value s leaves max(s, c).
C5_CursorMonotone == [][C5_Step]_vars

C5_Witness ==
  \E p \in Procs :
    /\ Done(p) /\ call[p].cursorOp = "ok"
    /\ call[p].cursorBefore # None
    /\ call[p].maxId < Val(call[p].cursorBefore)
    /\ estado_sincronizacion[sourceId] = Val(call[p].cursorBefore)

\* C6 as claimed: after every non-empty sales batch the stored cursor of the
\* source is at least the largest id_venta of the batch.
C6_CursorCoversBatch ==
  \A p \in Procs :
    Done(p) /\ call[p].kind = "ventas" =>
      /\ sourceId \in DOMAIN estado_sincronizacion
      /\ estado_sincronizacion[sourceId] >= MaxIdVenta(call[p].items)

\* C6 as amended: the cursor upsert is issued, once, exactly when the largest
\* id_venta of the batch (over all items, succeeded or failed) is positive, with
\* that id as candidate; when it succeeds the stored cursor is at least that id;
\* when it is not issued or fails the cursor is as it was before the batch.
C6_CursorCoversBatchWhenWritten ==
  \A p \in Procs :
    Done(p) /\ call[p].kind = "ventas" =>
      LET c == call[p]
          m == MaxIdVenta(c.items)
      IN IF m > 0
         THEN /\ c.cursorOp \in {"ok", "failed"}
              /\ c.maxId = m
              /\ c.cursorOp = "ok" =>
                   /\ sourceId \in DOMAIN estado_sincronizacion
                   /\ estado_sincronizacion[sourceId] >= m
              /\ c.cursorOp = "failed" =>
                   estado_sincronizacion = c.start.estado_sincronizacion
         ELSE /\ c.cursorOp = "none"
              /\ estado_sincronizacion = c.start.estado_sincronizacion

C6_Witness ==
  \E p \in Procs :
    /\ Done(p) /\ call[p].kind = "ventas"
    /\ call[p].okCount = 0
    /\ call[p].faulted = {}
    /\ call[p].cursorOp = "ok"
    /\ estado_sincronizacion[sourceId] = MaxIdVenta(call[p].items)
    /\ call[p].cursorBefore = None

\* C7: every column of every stored cancellation holds the most recent non-null
\* value that a committed import of that cancellation id supplied for it (null
\* when none did).
C7_CoalesceMerge ==
  \A id \in DOMAIN cancelaciones \cup DOMAIN supplied :
    /\ id \in DOMAIN cancelaciones
    /\ id \in DOMAIN supplied
    /\ \A f \in CancelacionCols : cancelaciones[id][f] = supplied[id][f]

C7_Witness ==
  \E p \in Procs :
    /\ Committed(p) /\ call[p].kind = "cancelaciones"
    /\ Item(p).motivo_cancelacion = None
    /\ Item(p).venta_id = None
    /\ Item(p).folio_sustitucion = Some("F1")
    /\ cancelaciones[Item(p).id_cancelacion_origen].motivo_cancelacion = Some("A")
    /\ cancelaciones[Item(p).id_cancelacion_origen].folio_sustitucion = Some("F1")
    /\ cancelaciones[Item(p).id_cancelacion_origen].venta_id = Some(1)

\* an item has just been tallied: the handler is back at the top of its loop
PostItem(p) == call[p].pc = "loop" /\ call[p].i > 1

\* the item that has just been tallied
Last(p) == call[p].items[call[p].i - 1]

\* the item that has just been tallied is a cancellation of a sale that was not
\* stored when the item began
OrphanTallied(p) ==
  /\ PostItem(p) /\ call[p].kind = "cancelaciones"
  /\ Last(p).venta_id # None
  /\ Val(Last(p).venta_id) \notin DOMAIN call[p].pre.ventas

\* C8: a cancellation of a sale that is not stored, when no database fault hits
\* it, is counted ok with no error entry, is stored, and leaves the sale tables
\* (headers, lines, payments) as they were.
C8_OrphanCancellation ==
  \A p \in Procs :
    OrphanTallied(p) /\ (call[p].i - 1) \notin call[p].faulted =>
      LET c == call[p]
      IN /\ c.outcome[c.i - 1] = "ok"
         /\ Len(c.errorDetails) = Cardinality({j \in 1..(c.i - 2) : c.outcome[j] = "error"})
         /\ Last(p).id_cancelacion_origen \in DOMAIN cancelaciones
         /\ ventas = c.pre.ventas
         /\ lineas_venta = c.pre.lineas_venta
         /\ pagos_venta = c.pre.pagos_venta

C8_Witness ==
  \E p \in Procs :
    /\ OrphanTallied(p)
    /\ call[p].outcome[call[p].i - 1] = "ok"
    /\ call[p].okCount = 1
    /\ cancelaciones[Last(p).id_cancelacion_origen].venta_id = Last(p).venta_id
    /\ ventas = <<>>

\* the columns of ventas that hold the metadata of a cancellation
MetaCols == {"fecha_cancelacion", "motivo_cancelacion", "folio_sustitucion", "uuid_cfdi"}

\* the item that has just been tallied ok is a cancellation of a sale that was
\* stored when the item began
CancelledStored(p) ==
  /\ PostItem(p) /\ call[p].kind = "cancelaciones"
  /\ call[p].outcome[call[p].i - 1] = "ok"
  /\ Last(p).venta_id # None
  /\ Val(Last(p).venta_id) \in DOMAIN call[p].pre.ventas

C10_OrderIndependence ==
  \A v \in orphaned : v \in DOMAIN ventas => ventas[v].cancelada = TRUE

\* C11: the stored total of every stored sale is the subtotal plus the tax of
\* the payload last committed for it, whatever total that payload carried.
C11_TotalRecomputed ==
  \A id \in DOMAIN ventas :
    /\ id \in DOMAIN lastOk
    /\ ventas[id].total = lastOk[id].subtotal + lastOk[id].impuestos

C11_Witness ==
  \E id \in DOMAIN ventas :
    /\ lastOk[id].subtotal = 100 /\ lastOk[id].impuestos = 16
    /\ lastOk[id].total = 999
    /\ ventas[id].total = 116

\* the request of p has been answered without a batch being started
Answered(p) == call[p].pc = "idle" /\ call[p].request # None

\* safeParse(req.body).success, on the route of the request
RequestValid(r) ==
  IF r.kind = "ventas" THEN BatchVentasValid(r.body) ELSE BatchCancelacionesValid(r.body)

\* C12: an import call (sales or cancellations) with an empty array answers
\* ok 0, dup 0, error 0, batch id null and no errors, and leaves every table
\* (sales, lines, payments, cancellations, audit log, cursor) as it was.
C12_EmptyBatch ==
  \A p \in Procs :
    call[p].request # None /\ Len(Val(call[p].request).body) = 0 =>
      /\ call[p].pc = "idle"
      /\ call[p].response = Some(EmptyBatch)
      /\ call[p].batchId = None
      /\ Snapshot = call[p].start

C12_Witness ==
  \E p \in Procs :
    /\ Answered(p) /\ Len(Val(call[p].request).body) = 0
    /\ Val(call[p].request).kind = "ventas"
    /\ call[p].response = Some(EmptyBatch)
    /\ sourceId # ""
    /\ ventas # <<>> /\ import_log # {}

\* C13 as claimed: when SOURCE_ID is not configured every import call, whatever
\* array it carries, is answered with the configuration error.
C13_ConfigErrorAlways ==
  \A p \in Procs :
    sourceId = "" /\ Answered(p) => call[p].response = Some(ServerMisconfig)

\* C13 as amended: when SOURCE_ID is not configured no batch is ever started and
\* no database statement is issued; a call with a well-formed, non-empty array is
\* answered with the configuration error, a malformed array with the validation
\* error and an empty array with the zeroed summary.
C13_ConfigError ==
  sourceId = "" =>
    /\ ventas = <<>> /\ lineas_venta = {} /\ pagos_venta = {} /\ cancelaciones = <<>>
    /\ import_log = {} /\ estado_sincronizacion = <<>>
    /\ clock = 0
    /\ \A p \in Procs :
         /\ held[p] = 0 /\ tx[p] = None
         /\ call[p].pc = "idle" /\ call[p].kind = "none"
         /\ call[p].request # None =>
              call[p].response =
                Some(IF ~RequestValid(Val(call[p].request)) THEN ValidationError
                     ELSE IF Len(Val(call[p].request).body) = 0 THEN EmptyBatch
                     ELSE ServerMisconfig)

C13_Witness ==
  \E p \in Procs :
    /\ sourceId = "" /\ Answered(p)
    /\ RequestValid(Val(call[p].request))
    /\ Len(Val(call[p].request).body) = 2
    /\ call[p].response = Some(ServerMisconfig)

\* C14: a call whose array holds a malformed item is answered with the
\* validation error; no batch is started, so no item of the array is stored, no
\* audit record is written and the cursor is unchanged.
C14_ValidationWholesale ==
  \A p \in Procs :
    call[p].request # None /\ ~RequestValid(Val(call[p].request)) =>
      /\ call[p].pc = "idle" /\ call[p].kind = "none"
      /\ call[p].response = Some(ValidationError)
      /\ Snapshot = call[p].start

C14_Witness ==
  \E p \in Procs :
    /\ Answered(p) /\ sourceId # ""
    /\ Val(call[p].request).kind = "ventas"
    /\ Len(Val(call[p].request).body) = 2
    /\ VentaValid(Val(call[p].request).body[1])
    /\ ~VentaValid(Val(call[p].request).body[2])
    /\ call[p].response = Some(ValidationError)
    /\ ventas = <<>> /\ import_log = {} /\ estado_sincronizacion = <<>>

\* an item of the request lacks a required field: the natural id, or (for a
\* sale) a line array or a payment array with at least one element
RequiredMissing(r) ==
  \E k \in 1..Len(r.body) :
    IF r.kind = "ventas"
    THEN \/ r.body[k].id_venta = None
         \/ r.body[k].lineas = None \/ Len(Val(r.body[k].lineas)) = 0
         \/ r.body[k].pagos = None \/ Len(Val(r.body[k].pagos)) = 0
    ELSE r.body[k].id_cancelacion_origen = None

\* C15 as claimed: a call with a sale that has no natural id, no line or no
\* payment, or with a cancellation that has no natural id, is answered with the
\* validation error and starts no batch (SOURCE_ID being configured).
C15_RequiredFields ==
  \A p \in Procs :
    sourceId # "" /\ call[p].request # None /\ RequiredMissing(Val(call[p].request)) =>
      /\ call[p].kind = "none"
      /\ call[p].pc = "idle"
      /\ call[p].response = Some(ValidationError)

\* C16: a call that has started a batch always ends with the structured summary
\* (status 200, the counts, the batch id, the error list), whatever failed on
\* the way.
C16_AlwaysSummary ==
  \A p \in Procs :
    (call[p].pc # "idle") ~> (Done(p) /\ call[p].response = Some(Summary(call[p])))

C16_Witness ==
  \E p \in Procs :
    /\ Done(p)
    /\ call[p].response = Some(Summary(call[p]))
    /\ Len(call[p].items) = 2
    /\ call[p].errorCount = 2
    /\ call[p].faulted = {1, 2}
    /\ call[p].cursorOp = "failed"
    /\ import_log = {}

\* the items of the call c tallied so far with this outcome
TalliedAs(c, o) == {j \in 1..Len(c.outcome) : c.outcome[j] = o}

\* the natural id that an entry of the error list names
EntryId(c, e) == IF c.kind = "ventas" THEN e.id_venta ELSE e.id_cancelacion_origen

\* C17: at every point of a batch ok + dup + error is the number of items
\* tallied, the error list holds one entry per failed item, in submission order,
\* with the natural id of that item and a reason; a failed item has changed no
\* table and an item counted ok is stored; the response carries these counts
\* and this list, with ok + dup + error = n.
C17_ResponseAccounting ==
  \A p \in Procs :
    call[p].kind # "none" =>
      LET c == call[p]
          failed == TalliedAs(c, "error")
      IN /\ c.okCount = Cardinality(TalliedAs(c, "ok"))
         /\ c.errorCount = Cardinality(failed)
         /\ c.dupCount = 0
         /\ c.okCount + c.dupCount + c.errorCount = Len(c.outcome)
         /\ Len(c.errorDetails) = Cardinality(failed)
         /\ \A j \in failed :
              LET e == c.errorDetails[Cardinality({x \in failed : x <= j})]
              IN /\ EntryId(c, e) = NaturalId(c, c.items[j])
                 /\ e.reason # ""
                 /\ (c.kind = "ventas" /\ e.reason # DbDown) => RejectedByDb(c.items[j])
         /\ PostItem(p) =>
              IF c.outcome[c.i - 1] = "error"
              THEN /\ ventas = c.pre.ventas /\ lineas_venta = c.pre.lineas_venta
                   /\ pagos_venta = c.pre.pagos_venta /\ cancelaciones = c.pre.cancelaciones
              ELSE IF c.kind = "ventas"
              THEN StoredAs(Snapshot, Last(p).id_venta, Last(p))
              ELSE Last(p).id_cancelacion_origen \in DOMAIN cancelaciones
         /\ Done(p) =>
              /\ Len(c.outcome) = Len(c.items)
              /\ Val(c.response).ok + Val(c.response).dup + Val(c.response).error = Len(c.items)
              /\ Val(c.response).ok = c.okCount
              /\ Val(c.response).error = c.errorCount
              /\ Val(c.response).errors = c.errorDetails

C17_Witness ==
  \E p \in Procs :
    /\ Done(p) /\ call[p].kind = "ventas"
    /\ call[p].outcome = <<"ok", "error">>
    /\ call[p].faulted = {}
    /\ Val(call[p].response).ok = 1 /\ Val(call[p].response).error = 1
    /\ Len(Val(call[p].response).errors) = 1
    /\ Val(call[p].response).errors[1].id_venta = 2
    /\ DOMAIN ventas = {1}

\* the loop of p is over and the audit record is about to be written
AtAudit(p) == call[p].pc = "loop" /\ call[p].i > Len(call[p].items)

\* the audit step, whether its INSERT succeeds or fails, leaves the sale and
\* cancellation tables and the summary as they are, and the call ends with the
\* summary
C18_Step ==
  \A p \in Procs :
    /\ AtAudit(p) =>
         /\ ventas' = ventas /\ lineas_venta' = lineas_venta
         /\ pagos_venta' = pagos_venta /\ cancelaciones' = cancelaciones
         /\ Summary(call'[p]) = Summary(call[p])
         /\ call'[p].pc \in {"idle", "cursor"}
    /\ (call'[p].pc = "idle" /\ call'[p].kind # "none") =>
         call'[p].response = Some(Summary(call'[p]))

\* C18: when the INSERT of the audit record fails the call still answers with
\* the summary (counts, batch id, error list) it had computed, and the item
\* writes committed before stay committed.
C18_AuditBestEffort == [][C18_Step]_vars

C18_Witness ==
  \E p \in Procs :
    /\ Done(p) /\ call[p].kind = "ventas"
    /\ call[p].okCount = 1 /\ Len(call[p].items) = 1
    /\ \A r \in import_log : r.batch_id # Val(call[p].batchId)
    /\ call[p].response = Some(Summary(call[p]))
    /\ Val(call[p].response).ok = 1
    /\ StoredAs(Snapshot, call[p].items[1].id_venta, call[p].items[1])

\* p is inside withTransaction, after pool.connect() and before client.release()
InScope(p) ==
  call[p].pc \in {"begin", "upsertVenta", "deleteLineas", "insertLinea", "deletePagos",
                  "insertPago", "upsertCancelacion", "updateVenta", "commit", "rollback",
                  "release"}

\* C19: a caller holds exactly one pooled connection while it is inside an
\* atomic scope and none outside: the connection is back in the pool whenever
\* control is in the per-item loop, after the loop and after the call returned,
\* whatever failed in the scope.
C19_ConnectionRelease ==
  \A p \in Procs :
    /\ held[p] = IF InScope(p) THEN 1 ELSE 0
    /\ ~InScope(p) => tx[p] = None

C19_Witness ==
  \E p \in Procs :
    /\ PostItem(p) /\ call[p].kind = "ventas"
    /\ call[p].outcome[call[p].i - 1] = "error"
    /\ (call[p].i - 1) \notin call[p].faulted
    /\ call[p].errorDetails[Len(call[p].errorDetails)].reason = DbDown
    /\ held[p] = 0

\* C20: with two callers importing in parallel, every committed state of every
\* sale holds the header, the lines and the payments of one payload, the one of
\* the transaction that committed last for that sale: never the header of one
\* payload with the children of another, never the lines of both.
C20_ConcurrentWriters ==
  \A id \in DOMAIN ventas \cup DOMAIN lastOk
               \cup {r.venta_id : r \in lineas_venta} \cup {r.venta_id : r \in pagos_venta} :
    /\ id \in DOMAIN lastOk
    /\ StoredAs(Snapshot, id, lastOk[id])
    /\ Cardinality({r \in lineas_venta : r.venta_id = id}) = Len(lastOk[id].lineas)
    /\ Cardinality({r \in pagos_venta : r.venta_id = id}) = Len(lastOk[id].pagos)

C20_Witness ==
  /\ \A p \in Callers : Done(p) /\ call[p].okCount = 1 /\ Len(call[p].items) = 1
  /\ call[1].items[1].id_venta = call[2].items[1].id_venta
  /\ call[1].items # call[2].items
  /\ call[1].raced /\ ~call[2].raced
  /\ lastOk[1] = call[2].items[1]
  /\ StoredAs(Snapshot, 1, call[2].items[1])

\* C21: when the import of a sale has committed, the stored payment rows of that
\* sale are exactly the payments of its payload, each with the index, the method
\* and the amount the caller gave; no payment row of an earlier import is left.
C21_FullReplacePagos ==
  \A p \in Procs :
    Committed(p) /\ call[p].kind = "ventas" =>
      LET rows == {r \in pagos_venta : r.venta_id = Item(p).id_venta}
          pagos == Item(p).pagos
      IN /\ rows = {[venta_id |-> Item(p).id_venta, idx |-> pagos[k].idx,
                      metodo |-> pagos[k].metodo, monto |-> pagos[k].monto] :
                       k \in 1..Len(pagos)}
         /\ Cardinality(rows) = Len(pagos)

C21_Witness ==
  \E p \in Procs :
    /\ Committed(p) /\ call[p].kind = "ventas"
    /\ {r.idx : r \in {x \in call[p].pre.pagos_venta : x.venta_id = Item(p).id_venta}} = {1, 2}
    /\ {r.idx : r \in {x \in pagos_venta : x.venta_id = Item(p).id_venta}} = {2}
    /\ \E r \in pagos_venta : r.metodo = "debito" /\ r.monto = 11

\* the items of the call c that were counted ok and carry this sale id
OkItems(c, id) == {j \in TalliedAs(c, "ok") : c.items[j].id_venta = id}

\* C22: every header column that the import writes holds, for every stored sale,
\* the value of the payload committed last for it, a null of that payload
\* replacing a stored value; when a batch is answered that payload is, for each
\* sale id with an item counted ok, the last such item in submission order.
C22_HeaderLastWriteWins ==
  /\ \A id \in DOMAIN ventas :
       /\ id \in DOMAIN lastOk
       /\ \A col \in HeaderCols : ventas[id][col] = HeaderParams(lastOk[id])[col]
       /\ lastOk[id].caja = None => ventas[id].caja_id = None
       /\ lastOk[id].folio = None /\ lastOk[id].no_referencia = None =>
            ventas[id].folio_numero = None
  /\ \A p \in Procs :
       Done(p) /\ call[p].kind = "ventas" =>
         \A j \in TalliedAs(call[p], "ok") :
           LET id == call[p].items[j].id_venta
           IN (\A x \in OkItems(call[p], id) : x <= j) => lastOk[id] = call[p].items[j]

C22_Witness ==
  \E p \in Procs :
    /\ Done(p) /\ call[p].kind = "ventas"
    /\ call[p].outcome = <<"ok", "ok">>
    /\ call[p].items[1].id_venta = call[p].items[2].id_venta
    /\ call[p].items[1].caja = Some("C1") /\ call[p].items[1].folio = Some("F7")
    /\ call[p].items[2].caja = None /\ call[p].items[2].folio = None
    /\ call[p].pre.ventas[1].caja_id = Some("C1")
    /\ ventas[1].caja_id = None /\ ventas[1].folio_numero = None
    /\ ventas[1].subtotal = 50

\* C23: when the import of a sale with n lines has committed, the stored line
\* numbers of the sale are exactly 1..n, one row per number, and the row under
\* number k is the k-th line of the payload; a line number in the payload is
\* ignored.
C23_LineNumbering ==
  \A p \in Procs :
    Committed(p) /\ call[p].kind = "ventas" =>
      LET rows == {r \in lineas_venta : r.venta_id = Item(p).id_venta}
          lineas == Item(p).lineas
          n == Len(lineas)
      IN /\ {r.renglon : r \in rows} = 1..n
         /\ Cardinality(rows) = n
         /\ \A k \in 1..n :
              \E r \in rows :
                /\ r.renglon = k
                /\ r.articulo = Val(lineas[k].articulo)
                /\ r.cantidad = Num0(lineas[k].cantidad)
                /\ r.descuento = Num0(lineas[k].descuento)

C23_Witness ==
  \E p \in Procs :
    /\ Committed(p) /\ call[p].kind = "ventas"
    /\ Len(Item(p).lineas) = 3
    /\ Item(p).lineas[3].renglon = Some(9)
    /\ {r.renglon : r \in lineas_venta} = {1, 2, 3}
    /\ \E r \in lineas_venta : r.renglon = 3 /\ r.descuento = 1 /\ r.articulo = "A"
    /\ \E r \in lineas_venta : r.renglon = 2 /\ r.articulo = "B"

\* C24: the amount of every stored line is the amount its payload line carries
\* when it carries one, and otherwise quantity times unit price minus discount,
\* a missing discount counting as zero.
C24_LineAmount ==
  \A r \in lineas_venta :
    /\ r.venta_id \in DOMAIN lastOk
    /\ r.renglon \in 1..Len(lastOk[r.venta_id].lineas)
    /\ LET l == lastOk[r.venta_id].lineas[r.renglon]
       IN r.importe_linea =
            IF l.importe # None THEN Val(l.importe)
            ELSE Val(l.cantidad) * Val(l.precio)
                   - (IF l.descuento # None THEN Val(l.descuento) ELSE 0)

C24_Witness ==
  /\ \E r \in lineas_venta :
       /\ r.renglon = 1 /\ r.importe_linea = 10
       /\ lastOk[r.venta_id].lineas[1].descuento = None
       /\ lastOk[r.venta_id].lineas[1].importe = None
  /\ \E r \in lineas_venta :
       /\ r.renglon = 2 /\ r.importe_linea = 6 /\ r.descuento = 4
       /\ lastOk[r.venta_id].lineas[2].importe = None
  /\ \E r \in lineas_venta :
       /\ r.renglon = 3 /\ r.importe_linea = 7
       /\ r.cantidad * r.precio_unitario - r.descuento = 9
       /\ lastOk[r.venta_id].lineas[3].importe = Some(7)

\* the value of the first key of keys that is not null in the record rec, or null
RECURSIVE FirstKey(_, _)
FirstKey(rec, keys) ==
  IF keys = <<>> THEN None
  ELSE IF rec[Head(keys)] # None THEN rec[Head(keys)]
  ELSE FirstKey(rec, Tail(keys))

\* a string that may be null, trimmed
TrimO(o) == IF o = None THEN None ELSE Some(Trim(Val(o)))

\* the record of the request body that the current item of p was parsed from
RawItem(p) == Val(call[p].request).body[call[p].i]

\* C25 as claimed: when the import of a sale has committed, every header and
\* line column fed by several keys holds the value (trimmed) of the first of
\* them, in priority order, that is not null in the caller's record, and null
\* (zero for a number) when none is; so a value given only under a legacy key
\* is stored.
C25_AliasResolution ==
  \A p \in Procs :
    Committed(p) /\ call[p].kind = "ventas" =>
      LET raw == RawItem(p)
          row == ventas[Val(raw.id_venta)]
          rows == {r \in lineas_venta : r.venta_id = Val(raw.id_venta)}
      IN /\ row.caja_id = TrimO(FirstKey(raw, <<"caja", "caja_id">>))
         /\ row.serie_documento =
              TrimO(FirstKey(raw, <<"serie", "serie_documento", "serieDocumento">>))
         /\ row.folio_numero =
              TrimO(FirstKey(raw, <<"folio", "folio_numero", "folioNumero",
                                   "no_referencia", "NO_REFEREN">>))
         /\ row.no_referencia =
              TrimO(FirstKey(raw, <<"no_referencia", "NO_REFEREN", "folio", "folio_numero">>))
         /\ row.cliente_origen = TrimO(FirstKey(raw, <<"cliente_origen", "cliente">>))
         /\ row.datos_origen = TrimO(FirstKey(raw, <<"datos_origen", "datos">>))
         /\ row.estado_origen = TrimO(FirstKey(raw, <<"estado_origen", "estado">>))
         /\ row.impuesto = Num0(FirstKey(raw, <<"impuestos", "impuesto">>))
         /\ \A k \in 1..Len(Val(raw.lineas)) :
              LET l == Val(raw.lineas)[k]
              IN \E r \in rows :
                   /\ r.renglon = k
                   /\ r.precio_unitario = Num0(FirstKey(l, <<"precio", "precio_unitario">>))
                   /\ r.impuesto_linea = Num0(FirstKey(l, <<"impuesto", "impuesto_linea">>))
                   /\ r.almacen_id = TrimO(FirstKey(l, <<"almacen_id", "almacen">>))
                   /\ r.observ_origen = TrimO(FirstKey(l, <<"observ", "observ_origen">>))
                   /\ r.usuario_origen = TrimO(FirstKey(l, <<"usuario", "usuario_origen">>))
                   /\ r.usu_hora = TrimO(FirstKey(l, <<"usuhora", "usu_hora">>))
                   /\ r.id_salida_origen = FirstKey(l, <<"id_salida", "id_salida_origen">>)
                   /\ r.estado_linea = TrimO(FirstKey(l, <<"estado", "estado_linea">>))

\* the audit records stored under the batch id of the call c
AuditOf(log, c) ==
  IF c.batchId = None THEN {} ELSE {r \in log : r.batch_id = Val(c.batchId)}

\* C26 as claimed: every answered batch has its audit record, carrying the batch
\* id, the item count, the counts and the error list of the response.
C26_ExactlyOneAudit ==
  \A p \in Procs :
    Done(p) =>
      \E r \in import_log :
        /\ AuditOf(import_log, call[p]) = {r}
        /\ Some(r.batch_id) = Val(call[p].response).batch_id
        /\ r.items = Len(call[p].items)
        /\ r.ok = Val(call[p].response).ok
        /\ r.error = Val(call[p].response).error

\* a step never removes nor changes an audit record; only the audit step of a
\* batch adds one, at most one, carrying the batch id, the source, the item
\* count, the counts and the error list of that batch; an answered batch has at
\* most one record and that record agrees with the response
C26_Step ==
  /\ import_log \subseteq import_log'
  /\ import_log' \ import_log \subseteq
       {[batch_id |-> Val(call[p].batchId), source_id |-> sourceId,
         items |-> Len(call[p].items), ok |-> call[p].okCount, dup |-> call[p].dupCount,
         error |-> call[p].errorCount, details |-> call[p].errorDetails] :
          p \in {q \in DOMAIN call : AtAudit(q)}}
  /\ \A p \in DOMAIN call :
       /\ ~AtAudit(p) => AuditOf(import_log', call[p]) = AuditOf(import_log, call[p])
       /\ (call'[p].pc = "idle" /\ call'[p].kind # "none") =>
            /\ Cardinality(AuditOf(import_log', call'[p])) <= 1
            /\ \A r \in AuditOf(import_log', call'[p]) :
                 /\ Some(r.batch_id) = Val(call'[p].response).batch_id
                 /\ r.items = Len(call'[p].items)
                 /\ r.ok = Val(call'[p].response).ok
                 /\ r.dup = Val(call'[p].response).dup
                 /\ r.error = Val(call'[p].response).error
                 /\ r.details = Val(call'[p].response).errors

\* C26 as amended: a batch that reaches the audit step writes at most one audit
\* record, exactly one when its INSERT succeeds and none when it fails; a
\* written record carries the batch id returned to the caller and the item
\* count, the ok, duplicate and error counts and the error list of the response;
\* no step ever updates or deletes an audit record.
C26_OneAuditRecord == [][C26_Step]_vars

C26_Witness ==
  \E p \in Procs :
    /\ Done(p) /\ call[p].kind = "ventas"
    /\ call[p].outcome = <<"ok", "error">>
    /\ \E r \in import_log :
         /\ AuditOf(import_log, call[p]) = {r}
         /\ r.items = 2 /\ r.ok = 1 /\ r.error = 1
         /\ Len(r.details) = 1
         /\ r.details = Val(call[p].response).errors
         /\ Some(r.batch_id) = Val(call[p].response).batch_id

\* the stored cancellation with this id in the tables snap, as an option
StoredCancelacion(snap, id) ==
  IF id \in DOMAIN snap.cancelaciones THEN Some(snap.cancelaciones[id]) ELSE None

\* C27: the upsert of a cancellation and the flagging of its sale are one
\* transaction: while the item is being processed, and after it has failed
\* (the sale update included), the stored cancellations and sales are as they
\* were before the item, and the failed item is counted as an error under its
\* id; once the item has committed both writes are stored; when the batch is
\* answered a cancellation id none of whose items succeeded is as before the
\* batch, and every id with an item that succeeded is stored.
C27_CancelacionAtomic ==
  \A p \in Procs :
    call[p].kind = "cancelaciones" =>
      LET c == call[p]
      IN /\ InScope(p) /\ ~Committed(p) =>
              cancelaciones = c.pre.cancelaciones /\ ventas = c.pre.ventas
         /\ Committed(p) =>
              LET id == Item(p).id_cancelacion_origen
              IN /\ StoredCancelacion(Snapshot, id) =
                      Some(UpsertCancelacionRow(StoredCancelacion(c.pre, id), Item(p)))
                 /\ \A x \in DOMAIN cancelaciones \ {id} :
                      StoredCancelacion(Snapshot, x) = StoredCancelacion(c.pre, x)
                 /\ IF Item(p).venta_id # None /\ Val(Item(p).venta_id) \in DOMAIN c.pre.ventas
                    THEN ventas[Val(Item(p).venta_id)].cancelada = TRUE
                    ELSE ventas = c.pre.ventas
         /\ PostItem(p) /\ c.outcome[c.i - 1] = "error" =>
              /\ cancelaciones = c.pre.cancelaciones /\ ventas = c.pre.ventas
              /\ c.errorCount = Cardinality(TalliedAs(c, "error"))
              /\ c.errorDetails[Len(c.errorDetails)].id_cancelacion_origen =
                   Last(p).id_cancelacion_origen
         /\ Done(p) =>
              \A j \in 1..Len(c.items) :
                LET id == c.items[j].id_cancelacion_origen
                IN IF \E x \in TalliedAs(c, "ok") : c.items[x].id_cancelacion_origen = id
                   THEN id \in DOMAIN cancelaciones
                   ELSE StoredCancelacion(Snapshot, id) = StoredCancelacion(c.start, id)

C27_Witness ==
  \E p \in Procs :
    /\ call[p].kind = "cancelaciones" /\ call[p].pc = "rollback"
    /\ tx[p] # None
    /\ Item(p).id_cancelacion_origen \in DOMAIN Val(tx[p]).cancelaciones
    /\ Item(p).venta_id # None
    /\ Val(Item(p).venta_id) \in DOMAIN ventas
    /\ Val(Item(p).venta_id) \notin DOMAIN Val(tx[p]).ventas
    /\ ventas[Val(Item(p).venta_id)].cancelada = FALSE
    /\ cancelaciones = <<>>

\* the initial state of the specification that starts from a cancelled sale, the
\* locals of the handler apart: a state that the calls of Spec reach
SoftReached ==
  /\ sourceId = "POS-01"
  /\ ventas = Put(<<>>, 1,
                  Val(UpdateVentaCancelada(
                        Some(UpsertVentaRow(None, HeaderParams(VentaParse(VentaA)), 1)),
                        CancelacionParse(CancelA), 2)))
  /\ lineas_venta = LineasOf(VentaParse(VentaA))
  /\ pagos_venta = PagosOf(VentaParse(VentaA))
  /\ cancelaciones = Put(<<>>, 1, UpsertCancelacionRow(None, CancelacionParse(CancelA)))
  /\ Cardinality(import_log) = 2
  /\ \A r \in import_log :
       /\ r.batch_id \in {1, 2} /\ r.source_id = "POS-01" /\ r.items = 1 /\ r.ok = 1
       /\ r.dup = 0 /\ r.error = 0 /\ r.details = <<>>
  /\ estado_sincronizacion = Put(<<>>, "POS-01", 1)
  /\ \A p \in Procs : call[p].pc = "idle" /\ tx[p] = None /\ held[p] = 0
  /\ clock = 2
  /\ uuids = 2
  /\ lastOk = Put(<<>>, 1, VentaParse(VentaA))
  /\ supplied = Put(<<>>, 1, LastNonNull(<<>>, CancelacionParse(CancelA)))
  /\ orphaned = {}

\* no step removes a sale header or takes its cancelled flag from true to
\* false, and a step of a sales import leaves the cancelled flag and the
\* cancellation metadata of every stored sale as they are
C28_Step ==
  \A id \in DOMAIN ventas :
    /\ id \in DOMAIN ventas'
    /\ ventas[id].cancelada => ventas'[id].cancelada
    /\ (\A p \in DOMAIN call : call[p].kind # "cancelaciones") =>
         Cols(ventas'[id], CancelCols) = Cols(ventas[id], CancelCols)

\* C28: importing a sale again leaves its cancelled flag and its cancellation
\* metadata (date, reason, replacement folio, document id) unchanged; no import
\* takes a cancelled flag from true to false or deletes a sale header, so a
\* cancelled sale stays cancelled.
C28_SoftCancelOneWay == [][C28_Step]_vars

C28_Witness ==
  \E p \in Procs :
    /\ Committed(p) /\ call[p].kind = "ventas"
    /\ Item(p).id_venta = 1
    /\ call[p].pre.ventas[1].cancelada = TRUE /\ call[p].pre.ventas[1].subtotal = 100
    /\ ventas[1].subtotal = 50
    /\ ventas[1].cancelada = TRUE
    /\ ventas[1].motivo_cancelacion = Some("A")
    /\ ventas[1].fecha_cancelacion = Some("2025-01-01T10:00:00Z")

\* the largest of a non-empty set of numbers
MaxOf(S) == CHOOSE m \in S : \A x \in S : x <= m

\* the callers whose cursor upsert has succeeded
CursorWriters == {p \in Callers : call[p].cursorOp = "ok"}

\* C29 as claimed: when the parallel sales calls have completed, the stored
\* cursor is the largest of the maximum ids of all the batches.
C29_CursorIsMaxOfBatches ==
  (\A p \in Callers : Done(p)) =>
    /\ sourceId \in DOMAIN estado_sincronizacion
    /\ estado_sincronizacion[sourceId] = MaxOf({MaxIdVenta(call[p].items) : p \in Callers})

\* C29 as amended: in every interleaving of two parallel sales calls the stored
\* cursor is the largest of the maximum ids of the batches whose cursor upsert
\* has succeeded (no cursor is stored when none has): an upsert with a smaller
\* maximum that runs later does not lower it, and a batch whose upsert fails
\* does not count.
C29_CursorMaxOfWritten ==
  IF CursorWriters = {}
  THEN estado_sincronizacion = <<>>
  ELSE /\ DOMAIN estado_sincronizacion = {sourceId}
       /\ estado_sincronizacion[sourceId] =
            MaxOf({MaxIdVenta(call[p].items) : p \in CursorWriters})

C29_Witness ==
  /\ \A p \in Callers : Done(p) /\ call[p].cursorOp = "ok"
  /\ call[2].batchId = Some(1) /\ call[1].batchId = Some(2)
  /\ MaxIdVenta(call[1].items) = 2 /\ MaxIdVenta(call[2].items) = 1
  /\ call[1].cursorBefore = None
  /\ call[2].cursorBefore = Some(2)
  /\ estado_sincronizacion[sourceId] = 2

\* C30: in every state, whatever the interleaving of two parallel calls and
\* whatever failed, every stored line and every stored payment belongs to a
\* sale whose header is stored; a failed import of a sale that has no header
\* leaves no line and no payment.
C30_NoOrphanChildren ==
  /\ \A r \in lineas_venta \cup pagos_venta : r.venta_id \in DOMAIN ventas
  /\ \A p \in Callers :
       \A j \in TalliedAs(call[p], "error") :
         call[p].items[j].id_venta \notin DOMAIN ventas =>
           \A r \in lineas_venta \cup pagos_venta : r.venta_id # call[p].items[j].id_venta

C30_Witness ==
  /\ \A p \in Callers : Done(p)
  /\ call[1].outcome = <<"error">> /\ call[1].faulted = {}
  /\ call[1].items[1].id_venta = 2
  /\ Len(call[1].items[1].lineas) = 1
  /\ call[2].outcome = <<"ok">>
  /\ DOMAIN ventas = {1}
  /\ pagos_venta # {}
  /\ \A r \in lineas_venta \cup pagos_venta : r.venta_id = 1

====
